---- MODULE Spec2Model ----
(***************************************************************************)
(* Model of the Viña Urbana demo backend (src/main_final.py, with the      *)
(* older draft src/main_vinaurbana.py where a definition says so).         *)
(*                                                                         *)
(* Every handler is one action.  An action records the request it served  *)
(* in req and the answer it gave in resp (status is the transport status: *)
(* 200, or the status_code of the HTTPException raised, or 500 for an      *)
(* exception the handler does not catch).                                  *)
(*                                                                         *)
(* Strings the code inspects (lower(), startswith, slicing, `in`) are      *)
(* sequences of one-character strings; strings it only stores or compares  *)
(* whole are TLA+ strings.  Optional[T] is a sequence of length 0 (None)   *)
(* or 1.  Timestamps (createdAt, fecha) are left out of the records: no    *)
(* handler reads them.                                                     *)
(***************************************************************************)
EXTENDS Integers, Sequences, FiniteSets, TLC

VARIABLES
    db_users,          \* List[User]
    db_membresias,     \* List[dict]
    db_notificaciones, \* List[dict]
    db_stock,          \* List[dict]
    db_pedidos,        \* List[Pedido]
    db_tickets,        \* List[dict]
    db_marketplace,    \* List[dict]
    db_alianzas,       \* List[dict]
    db_etiquetas,      \* List[EtiquetaDigital]
    db_donaciones,     \* List[dict]
    db_visitas,        \* List[VisitaVirtual]
    db_maridajes,      \* List[MaridajeInteractivo]
    uuid_ctr,          \* number of uuid4() values drawn so far
    req,               \* the request served last
    resp,              \* the answer given to it
    reservas,          \* the reservar_stock calls served by worker threads
    registros,         \* the registrar_usuario calls served by worker threads
    vu_db_users,       \* db_users of the older draft, main_vinaurbana.py
    vu_resp            \* the answer the older draft gave to req

dbs == <<db_users, db_membresias, db_notificaciones, db_stock, db_pedidos,
         db_tickets, db_marketplace, db_alianzas, db_etiquetas,
         db_donaciones, db_visitas, db_maridajes>>

\* The state of the older draft.
vu == <<vu_db_users, vu_resp>>

vars == <<dbs, uuid_ctr, req, resp, reservas, registros, vu>>

-----------------------------------------------------------------------------
(* Bounds of the model.                                                    *)

MaxUsers == 2

MaxRecords == 2

MaxStock == 5

\* reservar_stock calls that worker threads serve at the same time.
MaxReservas == 2

\* registrar_usuario calls that worker threads serve at the same time.
MaxRegistros == 2

-----------------------------------------------------------------------------
(* Python values.                                                          *)

None == <<>>

Some(x) == <<x>>

IsNone(o) == Len(o) = 0

Val(o) == o[1]

\* bool(s) of an Optional[str]: None and "" are falsy.
Truthy(o) == Len(o) = 1 /\ Len(o[1]) > 0

Range(s) == {s[i] : i \in 1..Len(s)}

MinOf(S) == CHOOSE x \in S : \A y \in S : x <= y

\* Letters with distinct upper and lower case that occur in the model's
\* strings; "E|" and "I|" stand for the accented É and Í, "e|" and "i|" for
\* é and í.
UpperChars ==
  <<"A","B","C","D","E","F","G","H","I","J","K","L","M","N","O","P","Q","R",
    "S","T","U","V","W","X","Y","Z","E|","I|">>

LowerChars ==
  <<"a","b","c","d","e","f","g","h","i","j","k","l","m","n","o","p","q","r",
    "s","t","u","v","w","x","y","z","e|","i|">>

\* The lower-case letter of every upper-case letter.
LowerMap ==
  [c \in Range(UpperChars) |->
     LowerChars[CHOOSE i \in 1..Len(UpperChars) : UpperChars[i] = c]]

LowerChar(c) == IF c \in DOMAIN LowerMap THEN LowerMap[c] ELSE c

\* str.lower()
Lower(s) == [i \in 1..Len(s) |-> LowerChar(s[i])]

\* str.startswith(prefix)
StartsWith(s, prefix) ==
  Len(s) >= Len(prefix) /\ SubSeq(s, 1, Len(prefix)) = prefix

\* s[n:]
SliceFrom(s, n) == SubSeq(s, n + 1, Len(s))

\* `a in b` for strings
Contains(b, a) ==
  \E i \in 1..(Len(b) - Len(a) + 1) : SubSeq(b, i, i + Len(a) - 1) = a

-----------------------------------------------------------------------------
(* Responses.                                                              *)

\* raise HTTPException(status_code=status, detail=detail); an uncaught
\* exception of another type is answered with status 500.
Err(status, detail) == [status |-> status, detail |-> detail, data |-> <<>>]

\* A returned body; data is the sequence of values it carries.
Ok(message, data) == [status |-> 200, detail |-> message, data |-> data]

NoRequest == [op |-> "none"]

-----------------------------------------------------------------------------
(* Security functions (token simple, sin JWT).                             *)

AllChars == LowerChars \o UpperChars \o <<" ", "-", "@", ".">>

CharCode(c) == CHOOSE i \in 1..Len(AllChars) : AllChars[i] = c

DigestBase == Len(AllChars) + 1

\* hashlib.sha256(password.encode("utf-8")).hexdigest(): a deterministic
\* digest with no collision among the passwords of the model.  It is the
\* positional encoding of the characters, so that a digest is never the
\* password itself and two different passwords never share one.
RECURSIVE hashear_contrasena(_)
hashear_contrasena(password) ==
  IF Len(password) = 0
  THEN 1
  ELSE hashear_contrasena(SubSeq(password, 1, Len(password) - 1)) * DigestBase
         + CharCode(password[Len(password)])

\* Mutant of verificar_contrasena: the password is folded to lower case
\* before it is hashed.
verificar_contrasena_nocase(plain, hashed) ==
  hashear_contrasena(Lower(plain)) = hashed

verificar_contrasena(plain, hashed) == hashear_contrasena(plain) = hashed

TokenPrefix == <<"t","o","k","e","n","-">>

\* crear_token({"sub": sub}): `if not sub: raise ValueError(...)`.
crear_token(sub) ==
  IF Len(sub) = 0
  THEN [raised |-> TRUE, value |-> <<>>]
  ELSE [raised |-> FALSE, value |-> TokenPrefix \o sub]

-----------------------------------------------------------------------------
(* Helpers.                                                                *)

\* Mutant of get_user_by_email: the comparison forgets lower().
get_user_by_email_exact(email) ==
  LET hits == {i \in 1..Len(db_users) : db_users[i].email = email}
  IN  IF hits = {} THEN None ELSE Some(db_users[MinOf(hits)])

get_user_by_email(email) ==
  LET hits == {i \in 1..Len(db_users) : Lower(db_users[i].email) = Lower(email)}
  IN  IF hits = {} THEN None ELSE Some(db_users[MinOf(hits)])

autenticar_usuario(email, password) ==
  LET user == get_user_by_email(email)
  IN  IF IsNone(user) \/ ~verificar_contrasena(password, Val(user).hashed_password)
      THEN None
      ELSE user

\* Mutant of get_current_user: the slice starts one character early and
\* keeps the dash of the prefix.
get_current_user_keep_dash(token) ==
  IF ~StartsWith(token, TokenPrefix)
  THEN [status |-> 401, user |-> None]
  ELSE LET email == SliceFrom(token, Len(TokenPrefix) - 1)
           user == get_user_by_email(email)
       IN  IF IsNone(user)
           THEN [status |-> 401, user |-> None]
           ELSE [status |-> 200, user |-> user]

\* Mutant of get_current_user: the prefix is cut off without being checked.
get_current_user_nocheck(token) ==
  LET email == SliceFrom(token, Len(TokenPrefix))
      user == get_user_by_email(email)
  IN  IF IsNone(user)
      THEN [status |-> 401, user |-> None]
      ELSE [status |-> 200, user |-> user]

\* The dependency every endpoint with `Depends(get_current_user)` runs before
\* its body: the user, or HTTPException(401).
get_current_user(token) ==
  IF ~StartsWith(token, TokenPrefix)
  THEN [status |-> 401, user |-> None]
  ELSE LET email == SliceFrom(token, Len(TokenPrefix))
           user == get_user_by_email(email)
       IN  IF IsNone(user)
           THEN [status |-> 401, user |-> None]
           ELSE [status |-> 200, user |-> user]

CredException == Err(401, "Token invalido")

-----------------------------------------------------------------------------
(* H-01: registration, and login.                                          *)

\* Mutant of RegistrarUsuario: the user is appended before the duplicate
\* check raises.
RegistrarUsuario_append_first(email, name, password) ==
  LET nuevo == [id |-> uuid_ctr + 1, email |-> email, name |-> name,
                hashed_password |-> hashear_contrasena(password)]
  IN  /\ req' = [op |-> "registrar_usuario", email |-> email, name |-> name,
                 password |-> password]
      /\ Len(db_users) < MaxUsers
      /\ db_users' = Append(db_users, nuevo)
      /\ uuid_ctr' = uuid_ctr + 1
      /\ resp' = IF ~IsNone(get_user_by_email(email))
                 THEN Err(400, "El correo ya esta registrado")
                 ELSE Ok("", <<nuevo>>)
      /\ UNCHANGED <<reservas, registros, vu, db_membresias, db_notificaciones, db_stock, db_pedidos,
                     db_tickets, db_marketplace, db_alianzas, db_etiquetas,
                     db_donaciones, db_visitas, db_maridajes>>

RegistrarUsuario(email, name, password) ==
  /\ req' = [op |-> "registrar_usuario", email |-> email, name |-> name,
             password |-> password]
  /\ IF ~IsNone(get_user_by_email(email))
     THEN /\ resp' = Err(400, "El correo ya esta registrado")
          /\ UNCHANGED <<reservas, registros, vu, dbs, uuid_ctr>>
     ELSE LET nuevo == [id |-> uuid_ctr + 1, email |-> email, name |-> name,
                        hashed_password |-> hashear_contrasena(password)]
          IN  /\ Len(db_users) < MaxUsers
              /\ db_users' = Append(db_users, nuevo)
              /\ uuid_ctr' = uuid_ctr + 1
              /\ resp' = Ok("", <<nuevo>>)
              /\ UNCHANGED <<reservas, registros, vu, db_membresias, db_notificaciones, db_stock,
                             db_pedidos, db_tickets, db_marketplace,
                             db_alianzas, db_etiquetas, db_donaciones,
                             db_visitas, db_maridajes>>

\* Mutant of LoginResponse: an email that is not registered is answered
\* with its own error.
LoginResponse_distingue(email, password) ==
  IF IsNone(get_user_by_email(email))
  THEN Err(404, "Usuario no encontrado")
  ELSE LET user == autenticar_usuario(email, password)
       IN  IF IsNone(user)
           THEN Err(400, "Credenciales incorrectas")
           ELSE LET access_token == crear_token(Val(user).email)
                IN  IF access_token.raised
                    THEN Err(500, "ValueError")
                    ELSE Ok("", <<[access_token |-> access_token.value,
                                   token_type |-> "bearer"]>>)

\* The body shared, line for line, by iniciar_sesion and login_json.
LoginResponse(email, password) ==
  LET user == autenticar_usuario(email, password)
  IN  IF IsNone(user)
      THEN Err(400, "Credenciales incorrectas")
      ELSE LET access_token == crear_token(Val(user).email)
           IN  IF access_token.raised
               THEN Err(500, "ValueError")
               ELSE Ok("", <<[access_token |-> access_token.value,
                              token_type |-> "bearer"]>>)

IniciarSesion(username, password) ==
  /\ req' = [op |-> "iniciar_sesion", email |-> username, password |-> password]
  /\ resp' = LoginResponse(username, password)
  /\ UNCHANGED <<reservas, registros, vu, dbs, uuid_ctr>>

LoginJson(email, password) ==
  /\ req' = [op |-> "login_json", email |-> email, password |-> password]
  /\ resp' = LoginResponse(email, password)
  /\ UNCHANGED <<reservas, registros, vu, dbs, uuid_ctr>>

\* get_current_user run on its own: what an authenticated endpoint answers
\* before its body runs.
GetCurrentUser(token) ==
  /\ req' = [op |-> "get_current_user", token |-> token]
  /\ resp' = LET r == get_current_user(token)
             IN  IF r.status = 401 THEN CredException ELSE Ok("", r.user)
  /\ UNCHANGED <<reservas, registros, vu, dbs, uuid_ctr>>

-----------------------------------------------------------------------------
(* Initial state: the module-level lists, and the stock seeded at import.  *)

StockName ==
  <<"C","a","b","e","r","n","e","t"," ","S","a","u","v","i","g","n","o","n",
    " ","R","e","s","e","r","v","a">>

SeedStock == 3

\* A reservar_stock call a worker thread has not begun to run.
ReservaInicial ==
  [pc |-> "inicio", nombre |-> <<>>, cantidad |-> 0, i |-> 0, visto |-> 0,
   leido |-> 0, status |-> 0]

\* A registrar_usuario call a worker thread has not begun to run.
RegistroInicial ==
  [pc |-> "inicio", email |-> <<>>, name |-> "", password |-> <<>>,
   status |-> 0]

Init ==
  /\ db_users = <<>>
  /\ db_membresias = <<>>
  /\ db_notificaciones = <<>>
  /\ db_stock = <<[nombre |-> StockName, stock |-> SeedStock]>>
  /\ db_pedidos = <<>>
  /\ db_tickets = <<>>
  /\ db_marketplace = <<>>
  /\ db_alianzas = <<>>
  /\ db_etiquetas = <<>>
  /\ db_donaciones = <<>>
  /\ db_visitas = <<>>
  /\ db_maridajes = <<>>
  /\ uuid_ctr = 0
  /\ req = NoRequest
  /\ resp = [status |-> 0, detail |-> "", data |-> <<>>]
  /\ reservas = [r \in 1..MaxReservas |-> ReservaInicial]
  /\ registros = [r \in 1..MaxRegistros |-> RegistroInicial]
  /\ vu_db_users = <<>>
  /\ vu_resp = [status |-> 0, detail |-> "", data |-> <<>>]

-----------------------------------------------------------------------------
(* Credential store and session issuer on their own.                       *)

\* Emails typed by clients: the empty string, and letter-case variants.
Emails ==
  {<<>>, <<"a">>, <<"A">>, <<"b">>, <<"a","b">>, <<"A","b">>, <<"A","B">>}

Passwords == {<<"x">>, <<"X">>}

\* Bearer strings presented by clients: well-formed ones for every email,
\* bare emails, and near misses of the prefix.
Tokens ==
  {TokenPrefix \o e : e \in Emails}
    \cup Emails
    \cup {<<"T","o","k","e","n","-","a">>, <<"t","o","k","e","n","a">>,
          <<"t","o","k","e","n">>, <<"x","t","o","k","e","n","-","a">>}

NextAuth ==
  \/ \E e \in Emails, p \in Passwords : RegistrarUsuario(e, "n", p)
  \/ \E e \in Emails, p \in Passwords : IniciarSesion(e, p)
  \/ \E e \in Emails, p \in Passwords : LoginJson(e, p)
  \/ \E t \in Tokens : GetCurrentUser(t)

SpecAuth == Init /\ [][NextAuth]_vars

-----------------------------------------------------------------------------
(* H-02: the catalog.  tipo, cepa and origen are character sequences (the  *)
(* filter lowers and searches them); id and nombre are whole strings.      *)

CATALOGO ==
  <<
    [id |-> "p01", nombre |-> "Reserva Especial 2016", precio |-> 9690,
     tipo |-> <<"t","i","n","t","o">>,
     cepa |-> <<"C","a","b","e","r","n","e","t"," ","S","a","u","v","i","g","n","o","n">>,
     origen |-> <<"V","a","l","l","e"," ","d","e","l"," ","M","a","i","p","o">>],
    [id |-> "p02", nombre |-> "Reserva Especial 2017", precio |-> 10390,
     tipo |-> <<"b","l","a","n","c","o">>,
     cepa |-> <<"S","a","u","v","i","g","n","o","n"," ","B","l","a","n","c">>,
     origen |-> <<"V","a","l","l","e"," ","d","e"," ","C","a","s","a","b","l","a","n","c","a">>],
    [id |-> "p03", nombre |-> "Reserva Especial 2018", precio |-> 11090,
     tipo |-> <<"t","i","n","t","o">>,
     cepa |-> <<"C","a","b","e","r","n","e","t"," ","S","a","u","v","i","g","n","o","n">>,
     origen |-> <<"V","a","l","l","e"," ","d","e"," ","C","o","l","c","h","a","g","u","a">>],
    [id |-> "p04", nombre |-> "Reserva Especial 2019", precio |-> 11790,
     tipo |-> <<"b","l","a","n","c","o">>,
     cepa |-> <<"S","a","u","v","i","g","n","o","n"," ","B","l","a","n","c">>,
     origen |-> <<"V","a","l","l","e"," ","d","e"," ","C","a","s","a","b","l","a","n","c","a">>],
    [id |-> "p05", nombre |-> "Reserva Especial 2020", precio |-> 12490,
     tipo |-> <<"t","i","n","t","o">>,
     cepa |-> <<"C","a","b","e","r","n","e","t"," ","S","a","u","v","i","g","n","o","n">>,
     origen |-> <<"V","a","l","l","e"," ","d","e","l"," ","M","a","i","p","o">>],
    [id |-> "p06", nombre |-> "Reserva Especial 2021", precio |-> 13190,
     tipo |-> <<"b","l","a","n","c","o">>,
     cepa |-> <<"S","a","u","v","i","g","n","o","n"," ","B","l","a","n","c">>,
     origen |-> <<"V","a","l","l","e"," ","d","e"," ","L","e","y","d","a">>],
    [id |-> "p07", nombre |-> "Reserva Especial 2022", precio |-> 13890,
     tipo |-> <<"t","i","n","t","o">>,
     cepa |-> <<"C","a","b","e","r","n","e","t"," ","S","a","u","v","i","g","n","o","n">>,
     origen |-> <<"V","a","l","l","e"," ","d","e","l"," ","M","a","i","p","o">>],
    [id |-> "p08", nombre |-> "Reserva Especial 2023", precio |-> 14590,
     tipo |-> <<"b","l","a","n","c","o">>,
     cepa |-> <<"S","a","u","v","i","g","n","o","n"," ","B","l","a","n","c">>,
     origen |-> <<"V","a","l","l","e"," ","d","e"," ","C","a","s","a","b","l","a","n","c","a">>],
    [id |-> "p09", nombre |-> "Reserva Especial 2024", precio |-> 15290,
     tipo |-> <<"t","i","n","t","o">>,
     cepa |-> <<"C","a","b","e","r","n","e","t"," ","S","a","u","v","i","g","n","o","n">>,
     origen |-> <<"V","a","l","l","e"," ","d","e","l"," ","M","a","i","p","o">>],
    [id |-> "p10", nombre |-> "Reserva Especial 2025", precio |-> 15990,
     tipo |-> <<"b","l","a","n","c","o">>,
     cepa |-> <<"S","a","u","v","i","g","n","o","n"," ","B","l","a","n","c">>,
     origen |-> <<"V","a","l","l","e"," ","d","e"," ","C","a","s","a","b","l","a","n","c","a">>],
    [id |-> "p11", nombre |-> "Reserva Especial 2026", precio |-> 16690,
     tipo |-> <<"t","i","n","t","o">>,
     cepa |-> <<"C","a","b","e","r","n","e","t"," ","S","a","u","v","i","g","n","o","n">>,
     origen |-> <<"V","a","l","l","e"," ","d","e","l"," ","M","a","i","p","o">>],
    [id |-> "p12", nombre |-> "Reserva Especial 2027", precio |-> 17390,
     tipo |-> <<"b","l","a","n","c","o">>,
     cepa |-> <<"S","a","u","v","i","g","n","o","n"," ","B","l","a","n","c">>,
     origen |-> <<"V","a","l","l","e"," ","d","e"," ","C","a","s","a","b","l","a","n","c","a">>],
    [id |-> "ros-01", nombre |-> "Rose Costa Fresca", precio |-> 8990,
     tipo |-> <<"r","o","s","a","d","o">>,
     cepa |-> <<"B","l","e","n","d"," ","r","o","s","e|">>,
     origen |-> <<"V","a","l","l","e"," ","d","e"," ","C","a","s","a","b","l","a","n","c","a">>],
    [id |-> "ros-02", nombre |-> "Rose de Syrah", precio |-> 9490,
     tipo |-> <<"r","o","s","a","d","o">>,
     cepa |-> <<"S","y","r","a","h">>,
     origen |-> <<"V","a","l","l","e"," ","d","e"," ","C","o","l","c","h","a","g","u","a">>],
    [id |-> "ros-03", nombre |-> "Rose Tarde de Verano", precio |-> 7990,
     tipo |-> <<"r","o","s","a","d","o">>,
     cepa |-> <<"G","r","e","n","a","c","h","e">>,
     origen |-> <<"V","a","l","l","e"," ","d","e","l"," ","M","a","u","l","e">>],
    [id |-> "esp-01", nombre |-> "Espumante Brut Tradicion", precio |-> 10990,
     tipo |-> <<"e","s","p","u","m","a","n","t","e">>,
     cepa |-> <<"B","l","e","n","d">>,
     origen |-> <<"V","a","l","l","e"," ","d","e"," ","L","i","m","a","r","i|">>],
    [id |-> "esp-02", nombre |-> "Espumante Rose", precio |-> 11990,
     tipo |-> <<"e","s","p","u","m","a","n","t","e">>,
     cepa |-> <<"P","i","n","o","t"," ","N","o","i","r">>,
     origen |-> <<"V","a","l","l","e"," ","d","e"," ","C","a","s","a","b","l","a","n","c","a">>],
    [id |-> "esp-03", nombre |-> "Espumante Brut Nature", precio |-> 12990,
     tipo |-> <<"e","s","p","u","m","a","n","t","e">>,
     cepa |-> <<"C","h","a","r","d","o","n","n","a","y">>,
     origen |-> <<"V","a","l","l","e"," ","d","e"," ","C","a","s","a","b","l","a","n","c","a">>]
  >>

\* Mutant of pasa_filtros: precio_max is an exclusive bound.
pasa_filtros_max_exclusivo(filtros, p) ==
  /\ ~(Truthy(filtros.tipo) /\ Lower(Val(filtros.tipo)) # Lower(p.tipo))
  /\ ~(Truthy(filtros.cepa) /\ ~Contains(Lower(p.cepa), Lower(Val(filtros.cepa))))
  /\ ~(Truthy(filtros.origen)
         /\ ~Contains(Lower(p.origen), Lower(Val(filtros.origen))))
  /\ ~(~IsNone(filtros.precio_min) /\ p.precio < Val(filtros.precio_min))
  /\ ~(~IsNone(filtros.precio_max) /\ p.precio >= Val(filtros.precio_max))

\* Mutant of pasa_filtros: the tipo test is missing.
pasa_filtros_sin_tipo(filtros, p) ==
  /\ ~(Truthy(filtros.cepa) /\ ~Contains(Lower(p.cepa), Lower(Val(filtros.cepa))))
  /\ ~(Truthy(filtros.origen)
         /\ ~Contains(Lower(p.origen), Lower(Val(filtros.origen))))
  /\ ~(~IsNone(filtros.precio_min) /\ p.precio < Val(filtros.precio_min))
  /\ ~(~IsNone(filtros.precio_max) /\ p.precio > Val(filtros.precio_max))

\* The loop body of filtrar_catalogo: p is appended unless one of the five
\* tests hits `continue`.
pasa_filtros(filtros, p) ==
  /\ ~(Truthy(filtros.tipo) /\ Lower(Val(filtros.tipo)) # Lower(p.tipo))
  /\ ~(Truthy(filtros.cepa) /\ ~Contains(Lower(p.cepa), Lower(Val(filtros.cepa))))
  /\ ~(Truthy(filtros.origen)
         /\ ~Contains(Lower(p.origen), Lower(Val(filtros.origen))))
  /\ ~(~IsNone(filtros.precio_min) /\ p.precio < Val(filtros.precio_min))
  /\ ~(~IsNone(filtros.precio_max) /\ p.precio > Val(filtros.precio_max))

\* for p in CATALOGO: ... filtrados.append(p)
RECURSIVE filtrados_desde(_, _)
filtrados_desde(filtros, k) ==
  IF k > Len(CATALOGO)
  THEN <<>>
  ELSE IF pasa_filtros(filtros, CATALOGO[k])
       THEN <<CATALOGO[k]>> \o filtrados_desde(filtros, k + 1)
       ELSE filtrados_desde(filtros, k + 1)

ListarCatalogo ==
  /\ req' = [op |-> "listar_catalogo"]
  /\ resp' = Ok("Catalogo completo", CATALOGO)
  /\ UNCHANGED <<reservas, registros, vu, dbs, uuid_ctr>>

ObtenerProducto(producto_id) ==
  /\ req' = [op |-> "obtener_producto", producto_id |-> producto_id]
  /\ resp' = LET hits == {i \in 1..Len(CATALOGO) : CATALOGO[i].id = producto_id}
             IN  IF hits = {}
                 THEN Err(404, "Producto no encontrado")
                 ELSE Ok("Producto encontrado", <<CATALOGO[MinOf(hits)]>>)
  /\ UNCHANGED <<reservas, registros, vu, dbs, uuid_ctr>>

FiltrarCatalogo(filtros) ==
  /\ req' = [op |-> "filtrar_catalogo", filtros |-> filtros]
  /\ resp' = Ok("Resultados del filtro", filtrados_desde(filtros, 1))
  /\ UNCHANGED <<reservas, registros, vu, dbs, uuid_ctr>>

\* Query values of the filter: absent, empty, and strings in several letter
\* cases that are whole types, parts of varietals and origins, or nothing
\* the catalog holds.
TiposIn ==
  {None, Some(<<>>), Some(<<"t","i","n","t","o">>), Some(<<"T","I","N","T","O">>),
   Some(<<"B","l","a","n","c","o">>), Some(<<"r","o","s","a","d","o">>),
   Some(<<"e","s","p","u","m","a","n","t","e">>), Some(<<"t","i","n","t">>)}

CepasIn ==
  {None, Some(<<>>), Some(<<"s","a","u","v","i","g","n","o","n">>),
   Some(<<"S","Y","R","A","H">>), Some(<<"b","l","e","n","d">>),
   Some(<<"r","o","s","E|">>), Some(<<"m","e","r","l","o","t">>)}

OrigenesIn ==
  {None, Some(<<>>), Some(<<"m","a","i","p","o">>),
   Some(<<"C","A","S","A","B","L","A","N","C","A">>),
   Some(<<"v","a","l","l","e"," ","d","e"," ","l">>), Some(<<"e","l","q","u","i">>)}

\* Price bounds: absent, zero, the cheapest and the dearest price, prices of
\* the catalog and values between two prices.
PreciosMinIn == {None, Some(0), Some(7990), Some(9691), Some(12000), Some(12490)}

PreciosMaxIn == {None, Some(0), Some(7990), Some(12000), Some(12490), Some(17390)}

FiltrosIn ==
  [tipo : TiposIn, cepa : CepasIn, origen : OrigenesIn,
   precio_min : PreciosMinIn, precio_max : PreciosMaxIn]

ProductoIdsIn == {"p01", "ros-02", "esp-03", "p13", ""}

\* The catalog endpoints read no mutable state, so a filter request served
\* right after another filter request reaches no state that a filter request
\* served after any other request does not reach: those steps are left out.
NextCatalogo ==
  \/ ListarCatalogo
  \/ \E producto_id \in ProductoIdsIn : ObtenerProducto(producto_id)
  \/ /\ req.op # "filtrar_catalogo"
     /\ \E filtros \in FiltrosIn : FiltrarCatalogo(filtros)

SpecCatalogo == Init /\ [][NextCatalogo]_vars

-----------------------------------------------------------------------------
(* H-05: stock reservation.                                                *)

\* Mutant of stock_insuficiente: the comparison is turned around.
stock_insuficiente_invertido(p, cantidad) == p.stock > cantidad

\* Mutant of stock_insuficiente: a request for the whole balance is refused.
stock_insuficiente_le(p, cantidad) == p.stock <= cantidad

\* if p["stock"] < cantidad
stock_insuficiente(p, cantidad) == p.stock < cantidad

\* The positions of db_stock the loop's name test accepts; the loop returns
\* or raises at the first of them.
stock_hits(nombre) ==
  {i \in 1..Len(db_stock) : Lower(db_stock[i].nombre) = Lower(nombre)}

\* cantidad is any int the query string carries.  The balance has no upper
\* limit in the code; the model stops at MaxStock.
ReservarStock(nombre, cantidad) ==
  /\ req' = [op |-> "reservar_stock", nombre |-> nombre, cantidad |-> cantidad]
  /\ UNCHANGED <<reservas, registros, vu, db_users, db_membresias, db_notificaciones, db_pedidos,
                 db_tickets, db_marketplace, db_alianzas, db_etiquetas,
                 db_donaciones, db_visitas, db_maridajes, uuid_ctr>>
  /\ IF stock_hits(nombre) = {}
     THEN /\ resp' = Err(404, "Producto no encontrado")
          /\ UNCHANGED db_stock
     ELSE LET i == MinOf(stock_hits(nombre))
          IN  IF stock_insuficiente(db_stock[i], cantidad)
              THEN /\ resp' = Err(400, "Stock insuficiente")
                   /\ UNCHANGED db_stock
              ELSE /\ db_stock[i].stock - cantidad <= MaxStock
                   /\ db_stock' = [db_stock EXCEPT ![i].stock = @ - cantidad]
                   /\ resp' = Ok("unidades reservadas", <<>>)

\* Names typed by clients: the seeded name in three letter cases, the empty
\* string and a name the ledger does not hold.
NombresIn ==
  {StockName, Lower(StockName),
   <<"c","A","B","E","R","N","E","T"," ","S","A","U","V","I","G","N","O","N",
     " ","R","E","S","E","R","V","A">>,
   <<"M","e","r","l","o","t">>, <<>>}

CantidadesIn == {-2, -1, 0, 1, 2, 3, 10}

NextStock ==
  \E nombre \in NombresIn, cantidad \in CantidadesIn :
    ReservarStock(nombre, cantidad)

SpecStock == Init /\ [][NextStock]_vars

-----------------------------------------------------------------------------
(* The feature registries.  A record is appended while the registries hold *)
(* fewer than MaxRecords records in all (the lists have no limit in the    *)
(* code).                                                                  *)

RecordCount ==
  Len(db_membresias) + Len(db_notificaciones) + Len(db_pedidos)
    + Len(db_tickets) + Len(db_marketplace) + Len(db_alianzas)
    + Len(db_etiquetas) + Len(db_donaciones) + Len(db_visitas)
    + Len(db_maridajes)

\* Field(default_factory=uuid4) when the body carries no id: a value no
\* earlier draw returned.  Ids typed by clients are Some(id).
IdOrDefault(id) == IF IsNone(id) THEN uuid_ctr + 1 ELSE Val(id)

\* Mutant of ActivarMembresia: the owner is the email typed in the token,
\* not the stored one.
ActivarMembresia_token_owner(token, tipo, activa) ==
  /\ req' = [op |-> "activar_membresia", token |-> token, tipo |-> tipo,
             activa |-> activa]
  /\ LET auth == get_current_user(token)
     IN  IF auth.status = 401
         THEN /\ resp' = CredException
              /\ UNCHANGED <<reservas, registros, vu, dbs, uuid_ctr>>
         ELSE LET registro == [usuario |-> SliceFrom(token, Len(TokenPrefix)),
                               tipo |-> tipo, activa |-> activa]
              IN  /\ RecordCount < MaxRecords
                  /\ db_membresias' = Append(db_membresias, registro)
                  /\ resp' = Ok("Membresia activada correctamente", <<registro>>)
                  /\ UNCHANGED <<reservas, registros, vu, db_users, db_notificaciones, db_stock,
                                 db_pedidos, db_tickets, db_marketplace,
                                 db_alianzas, db_etiquetas, db_donaciones,
                                 db_visitas, db_maridajes, uuid_ctr>>

\* H-03
ActivarMembresia(token, tipo, activa) ==
  /\ req' = [op |-> "activar_membresia",
             token |-> token,
             tipo |-> tipo,
             activa |-> activa]
  /\ LET auth == get_current_user(token)
     IN  IF auth.status = 401
         THEN /\ resp' = CredException
              /\ UNCHANGED <<reservas, registros, vu, dbs, uuid_ctr>>
         ELSE LET user == Val(auth.user)
                  registro == [usuario |-> user.email,
                               tipo |-> tipo,
                               activa |-> activa]
              IN  /\ RecordCount < MaxRecords
                  /\ db_membresias' = Append(db_membresias, registro)
                  /\ resp' = Ok("Membresia activada correctamente", <<registro>>)
                  /\ UNCHANGED <<reservas, registros, vu, db_users, db_notificaciones, db_stock,
                                 db_pedidos, db_tickets, db_marketplace,
                                 db_alianzas, db_etiquetas,
                                 db_donaciones, db_visitas, db_maridajes,
                                 uuid_ctr>>

\* H-04
EnviarNotificacion(token, canal, mensaje, horario_inicio, horario_fin) ==
  /\ req' = [op |-> "enviar_notificacion",
             token |-> token,
             canal |-> canal,
             mensaje |-> mensaje,
             horario_inicio |-> horario_inicio,
             horario_fin |-> horario_fin]
  /\ LET auth == get_current_user(token)
     IN  IF auth.status = 401
         THEN /\ resp' = CredException
              /\ UNCHANGED <<reservas, registros, vu, dbs, uuid_ctr>>
         ELSE LET user == Val(auth.user)
                  registro == [usuario |-> user.email,
                               canal |-> canal,
                               mensaje |-> mensaje,
                               horario_inicio |-> horario_inicio,
                               horario_fin |-> horario_fin]
              IN  /\ RecordCount < MaxRecords
                  /\ db_notificaciones' = Append(db_notificaciones, registro)
                  /\ resp' = Ok("Notificacion procesada", <<registro>>)
                  /\ UNCHANGED <<reservas, registros, vu, db_users, db_membresias, db_stock,
                                 db_pedidos, db_tickets, db_marketplace,
                                 db_alianzas, db_etiquetas,
                                 db_donaciones, db_visitas, db_maridajes,
                                 uuid_ctr>>

\* Mutant of CrearPedido: the order starts in the second state.
CrearPedido_despachado(token, tracking) ==
  /\ req' = [op |-> "crear_pedido", token |-> token]
  /\ LET auth == get_current_user(token)
     IN  IF auth.status = 401
         THEN /\ resp' = CredException
              /\ UNCHANGED <<reservas, registros, vu, dbs, uuid_ctr>>
         ELSE LET registro == [id |-> uuid_ctr + 1,
                               usuario |-> Val(auth.user).email,
                               estado |-> "Despachado",
                               tracking |-> Some(tracking)]
              IN  /\ RecordCount < MaxRecords
                  /\ db_pedidos' = Append(db_pedidos, registro)
                  /\ resp' = Ok("", <<registro>>)
                  /\ uuid_ctr' = uuid_ctr + 1
                  /\ UNCHANGED <<reservas, registros, vu, db_users, db_membresias, db_notificaciones,
                                 db_stock, db_tickets, db_marketplace,
                                 db_alianzas, db_etiquetas, db_donaciones,
                                 db_visitas, db_maridajes>>

\* H-06.  tracking is the number random.randint(1000, 9999) returned.
CrearPedido(token, tracking) ==
  /\ req' = [op |-> "crear_pedido",
             token |-> token]
  /\ LET auth == get_current_user(token)
     IN  IF auth.status = 401
         THEN /\ resp' = CredException
              /\ UNCHANGED <<reservas, registros, vu, dbs, uuid_ctr>>
         ELSE LET user == Val(auth.user)
                  registro == [id |-> uuid_ctr + 1,
                               usuario |-> user.email,
                               estado |-> "Preparando",
                               tracking |-> Some(tracking)]
              IN  /\ RecordCount < MaxRecords
                  /\ db_pedidos' = Append(db_pedidos, registro)
                  /\ resp' = Ok("", <<registro>>)
                  /\ uuid_ctr' = uuid_ctr + 1
                  /\ UNCHANGED <<reservas, registros, vu, db_users, db_membresias, db_notificaciones,
                                 db_stock, db_tickets, db_marketplace,
                                 db_alianzas, db_etiquetas,
                                 db_donaciones, db_visitas,
                                 db_maridajes>>

\* Mutant of SeguimientoPedido: the drawn status is written to every order.
SeguimientoPedido_todos(pedido_id, avance) ==
  LET hits == {i \in 1..Len(db_pedidos) : db_pedidos[i].id = pedido_id}
  IN  /\ req' = [op |-> "seguimiento_pedido", pedido_id |-> pedido_id]
      /\ IF hits = {}
         THEN /\ resp' = Err(404, "Pedido no encontrado")
              /\ UNCHANGED <<reservas, registros, vu, dbs, uuid_ctr>>
         ELSE LET i == MinOf(hits)
              IN  /\ db_pedidos' = [j \in 1..Len(db_pedidos) |->
                                      [db_pedidos[j] EXCEPT !.estado = avance]]
                  /\ resp' = Ok("Estado actualizado",
                                <<[id |-> db_pedidos[i].id, estado |-> avance,
                                   tracking |-> db_pedidos[i].tracking]>>)
                  /\ UNCHANGED <<reservas, registros, vu, db_users, db_membresias,
                                 db_notificaciones, db_stock, db_tickets,
                                 db_marketplace, db_alianzas, db_etiquetas,
                                 db_donaciones, db_visitas, db_maridajes,
                                 uuid_ctr>>

\* Mutant of SeguimientoPedido: the status only moves forward; a draw that
\* would move it back is not taken.
SeguimientoPedido_forward(pedido_id, avance) ==
  LET rank(e) == CASE e = "Preparando" -> 1 [] e = "Despachado" -> 2
                   [] e = "En ruta" -> 3 [] OTHER -> 4
      hits == {i \in 1..Len(db_pedidos) : db_pedidos[i].id = pedido_id}
  IN  /\ req' = [op |-> "seguimiento_pedido", pedido_id |-> pedido_id]
      /\ IF hits = {}
         THEN /\ resp' = Err(404, "Pedido no encontrado")
              /\ UNCHANGED <<reservas, registros, vu, dbs, uuid_ctr>>
         ELSE LET i == MinOf(hits)
              IN  /\ rank(avance) >= rank(db_pedidos[i].estado)
                  /\ db_pedidos' = [db_pedidos EXCEPT ![i].estado = avance]
                  /\ resp' = Ok("Estado actualizado",
                                <<[id |-> db_pedidos[i].id, estado |-> avance,
                                   tracking |-> db_pedidos[i].tracking]>>)
                  /\ UNCHANGED <<reservas, registros, vu, db_users, db_membresias, db_notificaciones,
                                 db_stock, db_tickets, db_marketplace,
                                 db_alianzas, db_etiquetas, db_donaciones,
                                 db_visitas, db_maridajes, uuid_ctr>>

\* random.choice draws avance.
SeguimientoPedido(pedido_id, avance) ==
  /\ req' = [op |-> "seguimiento_pedido", pedido_id |-> pedido_id]
  /\ LET hits == {i \in 1..Len(db_pedidos) : db_pedidos[i].id = pedido_id}
     IN  IF hits = {}
         THEN /\ resp' = Err(404, "Pedido no encontrado")
              /\ UNCHANGED <<reservas, registros, vu, dbs, uuid_ctr>>
         ELSE LET i == MinOf(hits)
              IN  /\ db_pedidos' = [db_pedidos EXCEPT ![i].estado = avance]
                  /\ resp' = Ok("Estado actualizado",
                                <<[id |-> db_pedidos[i].id, estado |-> avance,
                                   tracking |-> db_pedidos[i].tracking]>>)
                  /\ UNCHANGED <<reservas, registros, vu, db_users, db_membresias, db_notificaciones,
                                 db_stock, db_tickets, db_marketplace,
                                 db_alianzas, db_etiquetas,
                                 db_donaciones, db_visitas, db_maridajes,
                                 uuid_ctr>>

\* Mutant of sla_de_canal: the times of whatsapp and telefono are swapped.
sla_de_canal_swapped(canal) ==
  CASE canal = "email" -> "24h"
    [] canal = "whatsapp" -> "10min"
    [] canal = "telefono" -> "5min"
    [] OTHER -> "24h"

\* H-08.  tiempo.get(input.canal, "24h")
sla_de_canal(canal) ==
  CASE canal = "email" -> "24h"
    [] canal = "whatsapp" -> "5min"
    [] canal = "telefono" -> "10min"
    [] OTHER -> "24h"


CrearTicket(token, canal, prioridad, mensaje) ==
  /\ req' = [op |-> "crear_ticket",
             token |-> token,
             canal |-> canal,
             prioridad |-> prioridad,
             mensaje |-> mensaje]
  /\ LET auth == get_current_user(token)
     IN  IF auth.status = 401
         THEN /\ resp' = CredException
              /\ UNCHANGED <<reservas, registros, vu, dbs, uuid_ctr>>
         ELSE LET user == Val(auth.user)
                  registro == [usuario |-> user.email,
                               canal |-> canal,
                               prioridad |-> prioridad,
                               mensaje |-> mensaje,
                               SLA |-> sla_de_canal(canal)]
              IN  /\ RecordCount < MaxRecords
                  /\ db_tickets' = Append(db_tickets, registro)
                  /\ resp' = Ok("Ticket registrado", <<registro>>)
                  /\ UNCHANGED <<reservas, registros, vu, db_users, db_membresias, db_notificaciones,
                                 db_stock, db_pedidos, db_marketplace,
                                 db_alianzas, db_etiquetas,
                                 db_donaciones, db_visitas, db_maridajes,
                                 uuid_ctr>>

\* H-09
SincronizarMarketplace(producto, stock, precio, activo) ==
  /\ req' = [op |-> "sincronizar_marketplace",
             producto |-> producto,
             stock |-> stock,
             precio |-> precio,
             activo |-> activo]
  /\ LET registro == [producto |-> producto,
                       stock |-> stock,
                       precio |-> precio,
                       activo |-> activo]
     IN  /\ RecordCount < MaxRecords
         /\ db_marketplace' = Append(db_marketplace, registro)
         /\ resp' = Ok("Sincronizacion completada", <<registro>>)
         /\ UNCHANGED <<reservas, registros, vu, db_users, db_membresias, db_notificaciones,
                        db_stock, db_pedidos, db_tickets, db_alianzas,
                        db_etiquetas, db_donaciones, db_visitas,
                        db_maridajes, uuid_ctr>>

\* H-10
RegistrarAlianza(restaurante, beneficio, qr_valido) ==
  /\ req' = [op |-> "registrar_alianza",
             restaurante |-> restaurante,
             beneficio |-> beneficio,
             qr_valido |-> qr_valido]
  /\ LET registro == [restaurante |-> restaurante,
                       beneficio |-> beneficio,
                       qr_valido |-> qr_valido]
     IN  /\ RecordCount < MaxRecords
         /\ db_alianzas' = Append(db_alianzas, registro)
         /\ resp' = Ok("Alianza registrada", <<registro>>)
         /\ UNCHANGED <<reservas, registros, vu, db_users, db_membresias, db_notificaciones,
                        db_stock, db_pedidos, db_tickets, db_marketplace,
                        db_etiquetas, db_donaciones, db_visitas,
                        db_maridajes, uuid_ctr>>

\* H-13.  The request body is the stored record.
RegistrarEtiqueta(id, vino, huella_carbono, certificaciones, vigente) ==
  /\ req' = [op |-> "registrar_etiqueta",
             id |-> id,
             vino |-> vino,
             huella_carbono |-> huella_carbono,
             certificaciones |-> certificaciones,
             vigente |-> vigente]
  /\ LET input == [id |-> IdOrDefault(id),
                       vino |-> vino,
                       huella_carbono |-> huella_carbono,
                       certificaciones |-> certificaciones,
                       vigente |-> vigente]
     IN  /\ RecordCount < MaxRecords
         /\ db_etiquetas' = Append(db_etiquetas, input)
         /\ uuid_ctr' = IF IsNone(id) THEN uuid_ctr + 1 ELSE uuid_ctr
         /\ resp' = Ok("Etiqueta registrada", <<input>>)
         /\ UNCHANGED <<reservas, registros, vu, db_users, db_membresias, db_notificaciones,
                        db_stock, db_pedidos, db_tickets, db_marketplace,
                        db_alianzas, db_donaciones, db_visitas,
                        db_maridajes>>

\* Mutant of VerEtiqueta: a label that is no longer valid is reported as
\* missing.
VerEtiqueta_vigente_404(vino) ==
  /\ req' = [op |-> "ver_etiqueta", vino |-> vino]
  /\ resp' = LET hits == {i \in 1..Len(db_etiquetas) :
                           Lower(db_etiquetas[i].vino) = Lower(vino)}
             IN  IF hits = {} \/ ~db_etiquetas[MinOf(hits)].vigente
                 THEN Err(404, "Etiqueta no encontrada")
                 ELSE Ok("Etiqueta encontrada", <<db_etiquetas[MinOf(hits)]>>)
  /\ UNCHANGED <<reservas, registros, vu, dbs, uuid_ctr>>

VerEtiqueta(vino) ==
  /\ req' = [op |-> "ver_etiqueta", vino |-> vino]
  /\ resp' = LET hits == {i \in 1..Len(db_etiquetas) :
                           Lower(db_etiquetas[i].vino) = Lower(vino)}
             IN  IF hits = {}
                 THEN Err(404, "Etiqueta no encontrada")
                 ELSE IF ~db_etiquetas[MinOf(hits)].vigente
                      THEN Ok("Etiqueta expirada", <<db_etiquetas[MinOf(hits)]>>)
                      ELSE Ok("Etiqueta encontrada", <<db_etiquetas[MinOf(hits)]>>)
  /\ UNCHANGED <<reservas, registros, vu, dbs, uuid_ctr>>

\* H-14.  porcentaje is in hundredths and aporte in hundredths of the
\* currency unit, which is round(monto_compra * porcentaje, 2) for the whole
\* amounts of the model.
RegistrarDonacion(token, ong, porcentaje, monto_compra) ==
  /\ req' = [op |-> "registrar_donacion",
             token |-> token,
             ong |-> ong,
             porcentaje |-> porcentaje,
             monto_compra |-> monto_compra]
  /\ LET auth == get_current_user(token)
     IN  IF auth.status = 401
         THEN /\ resp' = CredException
              /\ UNCHANGED <<reservas, registros, vu, dbs, uuid_ctr>>
         ELSE LET user == Val(auth.user)
                  registro == [usuario |-> user.email,
                               ong |-> ong,
                               aporte |-> monto_compra * porcentaje]
              IN  /\ RecordCount < MaxRecords
                  /\ db_donaciones' = Append(db_donaciones, registro)
                  /\ resp' = Ok("Donacion registrada", <<registro>>)
                  /\ UNCHANGED <<reservas, registros, vu, db_users, db_membresias, db_notificaciones,
                                 db_stock, db_pedidos, db_tickets,
                                 db_marketplace, db_alianzas,
                                 db_etiquetas, db_visitas, db_maridajes,
                                 uuid_ctr>>

\* Mutant of RegistrarVisita: the new visit is put at the head of the list.
RegistrarVisita_prepend(id, bodega, url_experiencia, duracion_min, compatible_webar) ==
  /\ req' = [op |-> "registrar_visita", id |-> id, bodega |-> bodega,
             url_experiencia |-> url_experiencia,
             duracion_min |-> duracion_min,
             compatible_webar |-> compatible_webar]
  /\ LET input == [id |-> IdOrDefault(id), bodega |-> bodega,
                   url_experiencia |-> url_experiencia,
                   duracion_min |-> duracion_min,
                   compatible_webar |-> compatible_webar]
     IN  /\ RecordCount < MaxRecords
         /\ db_visitas' = <<input>> \o db_visitas
         /\ uuid_ctr' = IF IsNone(id) THEN uuid_ctr + 1 ELSE uuid_ctr
         /\ resp' = Ok("Visita registrada", <<input>>)
         /\ UNCHANGED <<reservas, registros, vu, db_users, db_membresias, db_notificaciones,
                        db_stock, db_pedidos, db_tickets, db_marketplace,
                        db_alianzas, db_etiquetas, db_donaciones,
                        db_maridajes>>

\* H-15
RegistrarVisita(id, bodega, url_experiencia, duracion_min, compatible_webar) ==
  /\ req' = [op |-> "registrar_visita",
             id |-> id,
             bodega |-> bodega,
             url_experiencia |-> url_experiencia,
             duracion_min |-> duracion_min,
             compatible_webar |-> compatible_webar]
  /\ LET input == [id |-> IdOrDefault(id),
                       bodega |-> bodega,
                       url_experiencia |-> url_experiencia,
                       duracion_min |-> duracion_min,
                       compatible_webar |-> compatible_webar]
     IN  /\ RecordCount < MaxRecords
         /\ db_visitas' = Append(db_visitas, input)
         /\ uuid_ctr' = IF IsNone(id) THEN uuid_ctr + 1 ELSE uuid_ctr
         /\ resp' = Ok("Visita registrada", <<input>>)
         /\ UNCHANGED <<reservas, registros, vu, db_users, db_membresias, db_notificaciones,
                        db_stock, db_pedidos, db_tickets, db_marketplace,
                        db_alianzas, db_etiquetas, db_donaciones,
                        db_maridajes>>

ListarVisitas ==
  /\ req' = [op |-> "listar_visitas"]
  /\ resp' = Ok("Listado de experiencias virtuales", db_visitas)
  /\ UNCHANGED <<reservas, registros, vu, dbs, uuid_ctr>>

\* H-16
RegistrarMaridaje(id, vino, sugerencias, disponible_offline) ==
  /\ req' = [op |-> "registrar_maridaje",
             id |-> id,
             vino |-> vino,
             sugerencias |-> sugerencias,
             disponible_offline |-> disponible_offline]
  /\ LET input == [id |-> IdOrDefault(id),
                       vino |-> vino,
                       sugerencias |-> sugerencias,
                       disponible_offline |-> disponible_offline]
     IN  /\ RecordCount < MaxRecords
         /\ db_maridajes' = Append(db_maridajes, input)
         /\ uuid_ctr' = IF IsNone(id) THEN uuid_ctr + 1 ELSE uuid_ctr
         /\ resp' = Ok("Maridaje registrado", <<input>>)
         /\ UNCHANGED <<reservas, registros, vu, db_users, db_membresias, db_notificaciones,
                        db_stock, db_pedidos, db_tickets, db_marketplace,
                        db_alianzas, db_etiquetas, db_donaciones,
                        db_visitas>>

\* Mutant of VerMaridaje: the scan keeps the last match, as a table keyed by
\* wine would.
VerMaridaje_last(vino) ==
  /\ req' = [op |-> "ver_maridaje", vino |-> vino]
  /\ resp' = LET hits == {i \in 1..Len(db_maridajes) :
                           Lower(db_maridajes[i].vino) = Lower(vino)}
             IN  IF hits = {}
                 THEN Err(404, "Maridaje no encontrado")
                 ELSE Ok("Maridaje encontrado",
                         <<db_maridajes[CHOOSE i \in hits :
                                          \A j \in hits : j <= i]>>)
  /\ UNCHANGED <<reservas, registros, vu, dbs, uuid_ctr>>

VerMaridaje(vino) ==
  /\ req' = [op |-> "ver_maridaje", vino |-> vino]
  /\ resp' = LET hits == {i \in 1..Len(db_maridajes) :
                           Lower(db_maridajes[i].vino) = Lower(vino)}
             IN  IF hits = {}
                 THEN Err(404, "Maridaje no encontrado")
                 ELSE Ok("Maridaje encontrado", <<db_maridajes[MinOf(hits)]>>)
  /\ UNCHANGED <<reservas, registros, vu, dbs, uuid_ctr>>

-----------------------------------------------------------------------------
(* The endpoints that require a bearer token, with registration.           *)

EmailsFew == {<<"a">>, <<"A">>, <<"b">>}

\* Well-formed tokens in both letter cases and for a second user, and a
\* token whose prefix is misspelt.
TokensFew ==
  {TokenPrefix \o <<"a">>, TokenPrefix \o <<"A">>, TokenPrefix \o <<"b">>,
   <<"T","o","k","e","n","-","a">>}

\* random.randint(1000, 9999): the two ends of the range.
TrackingsIn == {1000, 9999}

NextCuenta ==
  \/ \E e \in EmailsFew : RegistrarUsuario(e, "n", <<"x">>)
  \/ \E t \in TokensFew, activa \in BOOLEAN : ActivarMembresia(t, "Gold", activa)
  \/ \E t \in TokensFew : EnviarNotificacion(t, "email", "m", None, None)
  \/ \E t \in TokensFew, tracking \in TrackingsIn : CrearPedido(t, tracking)
  \/ \E t \in TokensFew, canal \in {"whatsapp", "chat"} :
       CrearTicket(t, canal, "alta", "x")
  \/ \E t \in TokensFew : RegistrarDonacion(t, "o", 2, 1000)

SpecCuenta == Init /\ [][NextCuenta]_vars

-----------------------------------------------------------------------------
(* The whole service: every handler that writes a list or can answer with  *)
(* an error, on one or two inputs each.                                    *)

Estados == {"Preparando", "Despachado", "En ruta", "Entregado"}

\* Order ids asked for: the ids of the stored orders, and 0, the id of none.
PedidoIdsIn == {0} \cup {db_pedidos[i].id : i \in 1..Len(db_pedidos)}

EmailsPair == {<<"a">>, <<"A">>}

\* A token in another letter case than the email "a", and one of no user.
TokensPair == {TokenPrefix \o <<"A">>, TokenPrefix \o <<"b">>}

VinosIn == {<<"v">>, <<"V">>}

Next ==
  \/ \E e \in EmailsPair : RegistrarUsuario(e, "n", <<"x">>)
  \/ \E p \in Passwords : IniciarSesion(<<"A">>, p)
  \/ \E e \in EmailsPair, p \in Passwords : LoginJson(e, p)
  \/ \E producto_id \in {"p01", "p13"} : ObtenerProducto(producto_id)
  \/ \E t \in TokensPair : ActivarMembresia(t, "Gold", TRUE)
  \/ \E t \in TokensPair : EnviarNotificacion(t, "email", "m", None, None)
  \/ \E nombre \in {Lower(StockName), <<"M","e","r","l","o","t">>},
        cantidad \in {3, 10} : ReservarStock(nombre, cantidad)
  \/ \E t \in TokensPair, tracking \in TrackingsIn : CrearPedido(t, tracking)
  \/ \E pedido_id \in PedidoIdsIn, avance \in Estados :
       SeguimientoPedido(pedido_id, avance)
  \/ \E t \in TokensPair : CrearTicket(t, "whatsapp", "alta", "x")
  \/ SincronizarMarketplace("p", 1, 100, TRUE)
  \/ RegistrarAlianza("r", "b", TRUE)
  \/ \E vigente \in BOOLEAN : RegistrarEtiqueta(None, <<"v">>, 1, <<"c">>, vigente)
  \/ \E vino \in VinosIn : VerEtiqueta(vino)
  \/ \E t \in TokensPair : RegistrarDonacion(t, "o", 2, 1000)
  \/ RegistrarVisita(None, "b", "u", 30, TRUE)
  \/ ListarVisitas
  \/ RegistrarMaridaje(None, <<"v">>, <<"s">>, FALSE)
  \/ \E vino \in VinosIn : VerMaridaje(vino)

Spec == Init /\ [][Next]_vars

-----------------------------------------------------------------------------
(* Support tickets on their own, with registration: every channel of the   *)
(* table, a channel outside it, and two priorities.                        *)

CanalesIn == {"email", "whatsapp", "telefono", "chat"}

PrioridadesIn == {"alta", "baja"}

NextSoporte ==
  \/ \E e \in EmailsPair \cup {<<"b">>} : RegistrarUsuario(e, "n", <<"x">>)
  \/ \E t \in TokensPair \cup {TokenPrefix \o <<"a">>},
        canal \in CanalesIn, prioridad \in PrioridadesIn :
       CrearTicket(t, canal, prioridad, "x")

SpecSoporte == Init /\ [][NextSoporte]_vars

-----------------------------------------------------------------------------
(* H-06: orders on their own, with registration.                           *)

NextPedidos ==
  \/ \E e \in EmailsPair : RegistrarUsuario(e, "n", <<"x">>)
  \/ \E t \in TokensPair \cup {TokenPrefix \o <<"a">>},
        tracking \in TrackingsIn : CrearPedido(t, tracking)
  \/ \E pedido_id \in PedidoIdsIn, avance \in Estados :
       SeguimientoPedido(pedido_id, avance)

SpecPedidos == Init /\ [][NextPedidos]_vars

-----------------------------------------------------------------------------
(* H-07: the pairing chatbot.                                              *)

carne == <<"c","a","r","n","e">>

pescado == <<"p","e","s","c","a","d","o">>

pasta == <<"p","a","s","t","a">>

queso == <<"q","u","e","s","o">>

\* Mutant of chatbot_sugerencia: the dish is looked up as typed.
chatbot_sugerencia_exact(plato) ==
  [plato |-> plato,
   vino |-> CASE plato = carne -> "Cabernet Sauvignon"
              [] plato = pescado -> "Sauvignon Blanc"
              [] plato = pasta -> "Merlot"
              [] plato = queso -> "Carmenere"
              [] OTHER -> "Pinot Noir"]

\* plato = input.plato.lower(); vino = sugerencias.get(plato, "Pinot Noir")
chatbot_sugerencia(plato_in) ==
  LET plato == Lower(plato_in)
  IN  [plato |-> plato,
       vino |-> CASE plato = carne -> "Cabernet Sauvignon"
                  [] plato = pescado -> "Sauvignon Blanc"
                  [] plato = pasta -> "Merlot"
                  [] plato = queso -> "Carmenere"
                  [] OTHER -> "Pinot Noir"]

\* The message is the text "Recomendado para {plato}: {vino}"; data carries
\* the two values it interpolates.
ChatbotMaridaje(plato) ==
  /\ req' = [op |-> "chatbot_maridaje", plato |-> plato]
  /\ resp' = Ok("Recomendado para", <<chatbot_sugerencia(plato)>>)
  /\ UNCHANGED <<reservas, registros, vu, dbs, uuid_ctr>>

UpperChar(c) ==
  IF \E i \in 1..Len(LowerChars) : LowerChars[i] = c
  THEN UpperChars[CHOOSE i \in 1..Len(LowerChars) : LowerChars[i] = c]
  ELSE c

\* A lower-case word in every mix of letter cases.
CaseVariants(s) ==
  {[i \in 1..Len(s) |-> IF i \in U THEN UpperChar(s[i]) ELSE s[i]] :
     U \in SUBSET (1..Len(s))}

\* Dishes typed by clients: "carne" and "queso" in every letter case, the
\* other keys in some, and words that are no key: empty, a key with a
\* space before it, a key with a letter after it, another dish.
PlatosIn ==
  CaseVariants(carne) \cup CaseVariants(queso)
    \cup {pescado, <<"P","e","s","c","a","d","o">>, pasta,
          <<"P","A","S","T","A">>, <<>>, <<" ">> \o carne, carne \o <<"s">>,
          <<"C","A","R","N","E","S">>, <<"p","o","l","l","o">>,
          <<"P","i","n","o","t">>}

NextChatbot ==
  \/ \E plato \in PlatosIn : ChatbotMaridaje(plato)
  \/ \E off \in BOOLEAN : RegistrarMaridaje(None, <<"v">>, <<"s">>, off)

SpecChatbot == Init /\ [][NextChatbot]_vars

-----------------------------------------------------------------------------
(* The two registries that have a lookup by wine: labels and pairings.     *)

\* Wines registered: one name in two letter cases, and another name.
VinosReg == {<<"v">>, <<"V">>, <<"w">>}

\* Wines looked up: the registered ones, a name never registered and the
\* empty string.
VinosVer == VinosReg \cup {<<"x">>, <<>>}

NextRegistro ==
  \/ \E vino \in VinosReg, vigente \in BOOLEAN :
       RegistrarEtiqueta(None, vino, 1, <<"c">>, vigente)
  \/ \E vino \in VinosVer : VerEtiqueta(vino)
  \/ \E vino \in VinosReg, off \in BOOLEAN :
       RegistrarMaridaje(None, vino, <<"s">>, off)
  \/ \E vino \in VinosVer : VerMaridaje(vino)

SpecRegistro == Init /\ [][NextRegistro]_vars

-----------------------------------------------------------------------------
(* H-05 under concurrent callers.  reservar_stock is a plain `def`         *)
(* endpoint, which the framework runs on worker threads; it takes no lock. *)
(* A call is the steps its thread takes on the shared list: the scan with  *)
(* the check `p["stock"] < cantidad`, then the read and the write of       *)
(* `p["stock"] -= cantidad`.  Another thread may run between any two.      *)

\* for p in db_stock: if p["nombre"].lower() == nombre.lower():
\*     if p["stock"] < cantidad: raise HTTPException(400)
\* and, with no entry of that name, raise HTTPException(404).
ReservarComprobar(r, nombre, cantidad) ==
  /\ reservas[r].pc = "inicio"
  /\ reservas' =
       [reservas EXCEPT ![r] =
          IF stock_hits(nombre) = {}
          THEN [@ EXCEPT !.pc = "fin", !.nombre = nombre,
                         !.cantidad = cantidad, !.status = 404]
          ELSE LET i == MinOf(stock_hits(nombre))
               IN  IF stock_insuficiente(db_stock[i], cantidad)
                   THEN [@ EXCEPT !.pc = "fin", !.nombre = nombre,
                                  !.cantidad = cantidad, !.i = i,
                                  !.visto = db_stock[i].stock,
                                  !.status = 400]
                   ELSE [@ EXCEPT !.pc = "restar", !.nombre = nombre,
                                  !.cantidad = cantidad, !.i = i,
                                  !.visto = db_stock[i].stock]]
  /\ UNCHANGED <<dbs, uuid_ctr, req, resp, registros, vu>>

\* The read of p["stock"] in `p["stock"] -= cantidad`.
ReservarLeer(r) ==
  /\ reservas[r].pc = "restar"
  /\ reservas' = [reservas EXCEPT ![r].pc = "escribir",
                                  ![r].leido = db_stock[reservas[r].i].stock]
  /\ UNCHANGED <<dbs, uuid_ctr, req, resp, registros, vu>>

\* Mutant of ReservarEscribir: the balance is checked again before the
\* write, and the call is refused when it no longer covers the quantity.
ReservarEscribir_recheck(r) ==
  /\ reservas[r].pc = "escribir"
  /\ IF db_stock[reservas[r].i].stock < reservas[r].cantidad
     THEN /\ reservas' = [reservas EXCEPT ![r].pc = "fin", ![r].status = 400]
          /\ UNCHANGED db_stock
     ELSE /\ db_stock' = [db_stock EXCEPT ![reservas[r].i].stock =
                            reservas[r].leido - reservas[r].cantidad]
          /\ reservas' = [reservas EXCEPT ![r].pc = "fin", ![r].status = 200]
  /\ UNCHANGED <<db_users, db_membresias, db_notificaciones, db_pedidos,
                 db_tickets, db_marketplace, db_alianzas, db_etiquetas,
                 db_donaciones, db_visitas, db_maridajes, uuid_ctr, req, resp,
                 registros, vu>>

\* The write of `p["stock"] -= cantidad`, and the return of the Response.
ReservarEscribir(r) ==
  /\ reservas[r].pc = "escribir"
  /\ db_stock' = [db_stock EXCEPT ![reservas[r].i].stock =
                    reservas[r].leido - reservas[r].cantidad]
  /\ reservas' = [reservas EXCEPT ![r].pc = "fin", ![r].status = 200]
  /\ UNCHANGED <<db_users, db_membresias, db_notificaciones, db_pedidos,
                 db_tickets, db_marketplace, db_alianzas, db_etiquetas,
                 db_donaciones, db_visitas, db_maridajes, uuid_ctr, req, resp,
                 registros, vu>>

\* Quantities asked for by concurrent callers.
CantidadesConc == {-1, 1, 2, 4}

NextConcurrente ==
  \/ \E r \in 1..MaxReservas,
        nombre \in {Lower(StockName), <<"M","e","r","l","o","t">>},
        cantidad \in CantidadesConc : ReservarComprobar(r, nombre, cantidad)
  \/ \E r \in 1..MaxReservas : ReservarLeer(r)
  \/ \E r \in 1..MaxReservas : ReservarEscribir(r)

SpecConcurrente == Init /\ [][NextConcurrente]_vars

-----------------------------------------------------------------------------
(* The creates that store an identifier: the three registries whose body   *)
(* is the stored record (EtiquetaDigital, VisitaVirtual and                *)
(* MaridajeInteractivo declare `id: UUID = Field(default_factory=uuid4)`,  *)
(* a field the caller may fill), and orders, whose id the handler draws.   *)

\* The id field of a body: absent, or a value the caller typed.  0 is a
\* value no draw of uuid4 returns.
IdsIn == {None, Some(0)}

NextIds ==
  \/ RegistrarUsuario(<<"a">>, "n", <<"x">>)
  \/ \E id \in IdsIn, vigente \in BOOLEAN :
       RegistrarEtiqueta(id, <<"v">>, 1, <<"c">>, vigente)
  \/ \E id \in IdsIn, webar \in BOOLEAN :
       RegistrarVisita(id, "b", "u", 30, webar)
  \/ \E id \in IdsIn, off \in BOOLEAN :
       RegistrarMaridaje(id, <<"v">>, <<"s">>, off)
  \/ \E tracking \in TrackingsIn : CrearPedido(TokenPrefix \o <<"a">>, tracking)

SpecIds == Init /\ [][NextIds]_vars

-----------------------------------------------------------------------------
(* The older draft, main_vinaurbana.py.  Its definitions carry the prefix  *)
(* vu_; its answer to the request in req is vu_resp.                       *)

\* The list `vinos` that the older draft's filtrar_catalogo builds on every
\* call.
vinos ==
  <<[nombre |-> "Syrah Reserva", cepa |-> <<"S","y","r","a","h">>,
     origen |-> <<"C","o","l","c","h","a","g","u","a">>, precio |-> 12000],
    [nombre |-> "Pinot Noir",
     cepa |-> <<"P","i","n","o","t"," ","N","o","i","r">>,
     origen |-> <<"C","a","s","a","b","l","a","n","c","a">>,
     precio |-> 9800]>>

\* bool(x) of an Optional[float]: None and 0 are falsy.
TruthyNum(o) == Len(o) = 1 /\ o[1] # 0

\* The condition of the comprehension: four `not filtros.x or ...` tests.
vu_pasa_filtros(filtros, v) ==
  /\ (~Truthy(filtros.cepa)
        \/ Contains(Lower(v.cepa), Lower(Val(filtros.cepa))))
  /\ (~Truthy(filtros.origen)
        \/ Contains(Lower(v.origen), Lower(Val(filtros.origen))))
  /\ (~TruthyNum(filtros.precio_min) \/ v.precio >= Val(filtros.precio_min))
  /\ (~TruthyNum(filtros.precio_max) \/ v.precio <= Val(filtros.precio_max))

\* [v for v in vinos if ...]
RECURSIVE vu_filtrados_desde(_, _)
vu_filtrados_desde(filtros, k) ==
  IF k > Len(vinos)
  THEN <<>>
  ELSE IF vu_pasa_filtros(filtros, vinos[k])
       THEN <<vinos[k]>> \o vu_filtrados_desde(filtros, k + 1)
       ELSE vu_filtrados_desde(filtros, k + 1)

VuFiltrarCatalogo(filtros) ==
  /\ req' = [op |-> "vu_filtrar_catalogo", filtros |-> filtros]
  /\ vu_resp' = Ok("Resultados del filtro", vu_filtrados_desde(filtros, 1))
  /\ UNCHANGED <<dbs, uuid_ctr, resp, reservas, registros, vu_db_users>>

\* Query values sent to the older draft: absent, empty, a whole varietal in
\* lower case, a part of one in upper case, and a string no wine holds.
VuCepasIn ==
  {None, Some(<<>>), Some(<<"s","y","r","a","h">>),
   Some(<<"P","I","N","O","T">>), Some(<<"x">>)}

VuOrigenesIn == {None, Some(<<"c","a","s","a">>), Some(<<"C","O","L">>)}

\* Prices: absent, zero, the two prices of `vinos`, and values between and
\* beyond them.
VuPreciosMinIn == {None, Some(0), Some(9800), Some(10000), Some(12001)}

VuPreciosMaxIn == {None, Some(0), Some(9799), Some(9800), Some(12000)}

VuFiltrosIn ==
  [cepa : VuCepasIn, origen : VuOrigenesIn, precio_min : VuPreciosMinIn,
   precio_max : VuPreciosMaxIn]

NextVuCatalogo == \E filtros \in VuFiltrosIn : VuFiltrarCatalogo(filtros)

SpecVuCatalogo == Init /\ [][NextVuCatalogo]_vars

-----------------------------------------------------------------------------
(* The credential store and session issuer of the two drafts, served the   *)
(* same requests: each action hands one request to main_final.py, which    *)
(* answers in resp, and to main_vinaurbana.py, which answers in vu_resp.   *)
(* The two are separate processes: each has its own db_users and draws its *)
(* own uuid4 values.                                                       *)

\* next((u for u in db_users if u.email == email), None)
vu_get_user_by_email(email) ==
  LET hits == {i \in 1..Len(vu_db_users) : vu_db_users[i].email = email}
  IN  IF hits = {} THEN None ELSE Some(vu_db_users[MinOf(hits)])

vu_autenticar_usuario(email, password) ==
  LET user == vu_get_user_by_email(email)
  IN  IF IsNone(user)
         \/ ~verificar_contrasena(password, Val(user).hashed_password)
      THEN None
      ELSE user

\* The older draft's get_current_user.  Its second search, the `for` loop
\* run when the helper returned None, tests the same equality.
vu_get_current_user(token) ==
  IF ~StartsWith(token, TokenPrefix)
  THEN [status |-> 401, user |-> None]
  ELSE LET email == SliceFrom(token, Len(TokenPrefix))
           user == vu_get_user_by_email(email)
           hits == {i \in 1..Len(vu_db_users) : vu_db_users[i].email = email}
           found == IF ~IsNone(user) THEN user
                    ELSE IF hits = {} THEN None
                    ELSE Some(vu_db_users[MinOf(hits)])
       IN  IF IsNone(found)
           THEN [status |-> 401, user |-> None]
           ELSE [status |-> 200, user |-> found]

\* The body shared by the older draft's iniciar_sesion and login_json.
VuLoginResponse(email, password) ==
  LET user == vu_autenticar_usuario(email, password)
  IN  IF IsNone(user)
      THEN Err(400, "Credenciales incorrectas")
      ELSE LET access_token == crear_token(Val(user).email)
           IN  IF access_token.raised
               THEN Err(500, "ValueError")
               ELSE Ok("", <<[access_token |-> access_token.value,
                              token_type |-> "bearer"]>>)

\* The older draft's registrar_usuario.  The id is a uuid4 of its own
\* process; the position in the list stands for it.
VuRegistrarUsuario(email, name, password) ==
  IF ~IsNone(vu_get_user_by_email(email))
  THEN /\ vu_resp' = Err(400, "El correo ya esta registrado")
       /\ UNCHANGED vu_db_users
  ELSE LET nuevo == [id |-> Len(vu_db_users) + 1, email |-> email,
                     name |-> name,
                     hashed_password |-> hashear_contrasena(password)]
       IN  /\ vu_db_users' = Append(vu_db_users, nuevo)
           /\ vu_resp' = Ok("", <<nuevo>>)

\* POST /usuarios/registro sent to both drafts.
AmbosRegistrar(email, name, password) ==
  /\ req' = [op |-> "registrar_usuario", email |-> email, name |-> name,
             password |-> password]
  /\ Len(db_users) < MaxUsers
  /\ Len(vu_db_users) < MaxUsers
  /\ IF ~IsNone(get_user_by_email(email))
     THEN /\ resp' = Err(400, "El correo ya esta registrado")
          /\ UNCHANGED <<db_users, uuid_ctr>>
     ELSE LET nuevo == [id |-> uuid_ctr + 1, email |-> email, name |-> name,
                        hashed_password |-> hashear_contrasena(password)]
          IN  /\ db_users' = Append(db_users, nuevo)
              /\ uuid_ctr' = uuid_ctr + 1
              /\ resp' = Ok("", <<nuevo>>)
  /\ VuRegistrarUsuario(email, name, password)
  /\ UNCHANGED <<reservas, registros, db_membresias, db_notificaciones,
                 db_stock, db_pedidos, db_tickets, db_marketplace,
                 db_alianzas, db_etiquetas, db_donaciones, db_visitas,
                 db_maridajes>>

\* POST /sesion/login-json sent to both drafts (iniciar_sesion runs the
\* same body on form fields).
AmbosLogin(email, password) ==
  /\ req' = [op |-> "login_json", email |-> email, password |-> password]
  /\ resp' = LoginResponse(email, password)
  /\ vu_resp' = VuLoginResponse(email, password)
  /\ UNCHANGED <<reservas, registros, dbs, uuid_ctr, vu_db_users>>

\* A bearer token resolved by both drafts.
AmbosGetCurrentUser(token) ==
  /\ req' = [op |-> "get_current_user", token |-> token]
  /\ resp' = LET r == get_current_user(token)
             IN  IF r.status = 401 THEN CredException ELSE Ok("", r.user)
  /\ vu_resp' = LET r == vu_get_current_user(token)
                IN  IF r.status = 401 THEN CredException ELSE Ok("", r.user)
  /\ UNCHANGED <<reservas, registros, dbs, uuid_ctr, vu_db_users>>

NextDrafts ==
  \/ \E e \in EmailsFew, p \in Passwords : AmbosRegistrar(e, "n", p)
  \/ \E e \in EmailsFew, p \in Passwords : AmbosLogin(e, p)
  \/ \E t \in TokensFew : AmbosGetCurrentUser(t)

SpecDrafts == Init /\ [][NextDrafts]_vars

-----------------------------------------------------------------------------
(* H-01 under concurrent callers.  registrar_usuario is a plain `def`      *)
(* endpoint, which the framework runs on worker threads; it takes no lock. *)
(* A call is the steps its thread takes on the shared list: the scan of    *)
(* get_user_by_email, then, after the password is hashed and the User is   *)
(* built, the append.  Another thread may run between the two.             *)

\* if get_user_by_email(input.email): raise HTTPException(400)
RegistrarComprobar(r, email, name, password) ==
  /\ registros[r].pc = "inicio"
  /\ registros' =
       [registros EXCEPT ![r] =
          IF ~IsNone(get_user_by_email(email))
          THEN [@ EXCEPT !.pc = "fin", !.email = email, !.name = name,
                         !.password = password, !.status = 400]
          ELSE [@ EXCEPT !.pc = "agregar", !.email = email, !.name = name,
                         !.password = password]]
  /\ UNCHANGED <<dbs, uuid_ctr, req, resp, reservas, vu>>

\* nuevo = User(...); db_users.append(nuevo); return nuevo
RegistrarAgregar(r) ==
  /\ registros[r].pc = "agregar"
  /\ Len(db_users) < MaxUsers
  /\ db_users' =
       Append(db_users,
              [id |-> uuid_ctr + 1, email |-> registros[r].email,
               name |-> registros[r].name,
               hashed_password |->
                 hashear_contrasena(registros[r].password)])
  /\ uuid_ctr' = uuid_ctr + 1
  /\ registros' = [registros EXCEPT ![r].pc = "fin", ![r].status = 200]
  /\ UNCHANGED <<db_membresias, db_notificaciones, db_stock, db_pedidos,
                 db_tickets, db_marketplace, db_alianzas, db_etiquetas,
                 db_donaciones, db_visitas, db_maridajes, req, resp,
                 reservas, vu>>

NextRegistroConcurrente ==
  \/ \E r \in 1..MaxRegistros, e \in EmailsFew, p \in Passwords :
       RegistrarComprobar(r, e, "n", p)
  \/ \E r \in 1..MaxRegistros : RegistrarAgregar(r)

SpecRegistroConcurrente == Init /\ [][NextRegistroConcurrente]_vars

-----------------------------------------------------------------------------
(* Claims about the credential store and the session issuer (SpecAuth).    *)

LoginOps == {"iniciar_sesion", "login_json"}

\* Stated without the code's helpers: the positions of the stored users
\* whose email equals `email` up to letter case.
SameEmail(email) ==
  {i \in 1..Len(db_users) : Lower(db_users[i].email) = Lower(email)}

\* C1: a register whose email equals a stored user's email up to letter
\* case fails with 400 (DuplicateEmail) and leaves the user store as it was;
\* after every step the store holds at most one record per case-insensitive
\* email.
C1_DuplicateEmailRejected ==
  [][/\ (req'.op = "registrar_usuario" /\ SameEmail(req'.email) # {})
          => /\ resp' = Err(400, "El correo ya esta registrado")
             /\ db_users' = db_users
     /\ \A i, j \in 1..Len(db_users') :
          Lower(db_users'[i].email) = Lower(db_users'[j].email) => i = j
    ]_vars

\* A register of a letter-case variant of a stored email was refused.
C1_Witness ==
  /\ req.op = "registrar_usuario"
  /\ resp.status = 400
  /\ SameEmail(req.email) # {}
  /\ \A i \in 1..Len(db_users) : db_users[i].email # req.email

\* The claim's condition for (email, password), stated on the store.
Credentialed(email, password) ==
  {i \in SameEmail(email) :
     db_users[i].hashed_password = hashear_contrasena(password)}

\* C2: authenticate(email, password) returns a stored user, the one whose
\* email matches case-insensitively and whose digest is the digest of the
\* password, if and only if such a user exists; for every other pair it
\* returns None, and a login with such a pair is answered 400
\* (InvalidCredentials).
C2_AuthenticateIff ==
  /\ \A e \in Emails, p \in Passwords :
       LET r == autenticar_usuario(e, p)
       IN  /\ IsNone(r) <=> Credentialed(e, p) = {}
           /\ ~IsNone(r) => \E i \in Credentialed(e, p) : Val(r) = db_users[i]
  /\ (req.op \in LoginOps /\ Credentialed(req.email, req.password) = {})
       => resp = Err(400, "Credenciales incorrectas")
  /\ (req.op \in LoginOps /\ resp.status = 400)
       => Credentialed(req.email, req.password) = {}

\* A login that typed a letter-case variant of the stored email succeeded, in
\* a store where another password for the same email is refused.
C2_Witness ==
  /\ req.op = "login_json"
  /\ resp.status = 200
  /\ \A i \in 1..Len(db_users) : db_users[i].email # req.email
  /\ \E p \in Passwords : IsNone(autenticar_usuario(req.email, p))

\* C3 (as claimed): for every registered user, whatever email string the
\* registration accepted, a login with the correct password (any letter case
\* of the email) returns the token "token-" + stored email, and that token
\* resolves to exactly that user.
C3_TokenRoundTrip ==
  (req.op \in LoginOps /\ Credentialed(req.email, req.password) # {})
    => LET u == db_users[MinOf(Credentialed(req.email, req.password))]
       IN  /\ resp.status = 200
           /\ resp.data[1].access_token = TokenPrefix \o u.email
           /\ get_current_user(resp.data[1].access_token)
                = [status |-> 200, user |-> Some(u)]

\* The claim's prefix test, stated character by character.
HasTokenPrefix(t) ==
  /\ Len(t) >= Len(TokenPrefix)
  /\ \A i \in 1..Len(TokenPrefix) : t[i] = TokenPrefix[i]

\* The characters after the prefix.
TokenRemainder(t) == [i \in 1..(Len(t) - Len(TokenPrefix)) |-> t[i + Len(TokenPrefix)]]

\* The strings the claim says must be refused; an email "matches" as the
\* user store matches emails, up to letter case.
Unresolvable(t) ==
  \/ ~HasTokenPrefix(t)
  \/ SameEmail(TokenRemainder(t)) = {}

\* C4: in every reachable state of the user store, resolve_token fails with
\* 401 (InvalidToken) for every string that does not start with "token-" and
\* for every prefixed string whose remainder matches no stored user's email,
\* and succeeds, returning that stored user, for every other string.
C4_ResolveToken ==
  /\ \A t \in Tokens :
       LET r == get_current_user(t)
       IN  /\ r.status = 401 <=> Unresolvable(t)
           /\ ~Unresolvable(t)
                => /\ r.status = 200
                   /\ r.user = Some(db_users[MinOf(SameEmail(TokenRemainder(t)))])
  /\ req.op = "get_current_user"
       => (resp = CredException <=> Unresolvable(req.token))

\* A prefixed token was refused in a store that holds users, and another
\* prefixed token resolves there.
C4_Witness ==
  /\ req.op = "get_current_user"
  /\ resp.status = 401
  /\ HasTokenPrefix(req.token)
  /\ \E t \in Tokens : ~Unresolvable(t)

-----------------------------------------------------------------------------
(* Claims about the catalog filter (SpecCatalogo).                         *)

\* a occurs in b, stated on positions.
IsSubstring(a, b) ==
  \E k \in 0..(Len(b) - Len(a)) : \A j \in 1..Len(a) : b[k + j] = a[j]

\* C5 (as claimed): a criterion is supplied whenever its value is not None.
SatisfiesNotNone(f, p) ==
  /\ ~IsNone(f.tipo) => Lower(p.tipo) = Lower(Val(f.tipo))
  /\ ~IsNone(f.cepa) => IsSubstring(Lower(Val(f.cepa)), Lower(p.cepa))
  /\ ~IsNone(f.origen) => IsSubstring(Lower(Val(f.origen)), Lower(p.origen))
  /\ ~IsNone(f.precio_min) => p.precio >= Val(f.precio_min)
  /\ ~IsNone(f.precio_max) => p.precio <= Val(f.precio_max)

\* C5 (as amended): an empty tipo counts as absent, like None.
SatisfiesSupplied(f, p) ==
  /\ (~IsNone(f.tipo) /\ Val(f.tipo) # <<>>) => Lower(p.tipo) = Lower(Val(f.tipo))
  /\ ~IsNone(f.cepa) => IsSubstring(Lower(Val(f.cepa)), Lower(p.cepa))
  /\ ~IsNone(f.origen) => IsSubstring(Lower(Val(f.origen)), Lower(p.origen))
  /\ ~IsNone(f.precio_min) => p.precio >= Val(f.precio_min)
  /\ ~IsNone(f.precio_max) => p.precio <= Val(f.precio_max)

NoCriteria ==
  [tipo |-> None, cepa |-> None, origen |-> None, precio_min |-> None,
   precio_max |-> None]

\* C5 (as claimed): for every combination of the five criteria, filter
\* returns exactly the catalog products that satisfy every criterion whose
\* value is not None, in catalog order; with no criterion, the whole catalog.
C5_FilterNotNone ==
  req.op = "filtrar_catalogo"
    => LET Test(p) == SatisfiesNotNone(req.filtros, p)
       IN  /\ resp.status = 200
           /\ resp.data = SelectSeq(CATALOGO, Test)
           /\ req.filtros = NoCriteria => resp.data = CATALOGO

\* C5 (amended): for every combination of the five criteria, filter returns
\* exactly the catalog products that satisfy every supplied criterion, in
\* catalog order, where tipo is supplied when it is neither None nor the
\* empty string and every other criterion when it is not None; with no
\* criterion supplied it returns the whole catalog.
C5_FilterSupplied ==
  req.op = "filtrar_catalogo"
    => LET Test(p) == SatisfiesSupplied(req.filtros, p)
       IN  /\ resp.status = 200
           /\ resp.data = SelectSeq(CATALOGO, Test)
           /\ req.filtros = NoCriteria => resp.data = CATALOGO

\* A filter with several criteria, a price bound that is a catalog price
\* among them, kept some products and dropped others.
C5_Witness ==
  /\ req.op = "filtrar_catalogo"
  /\ ~IsNone(req.filtros.tipo) /\ ~IsNone(req.filtros.cepa)
  /\ req.filtros.precio_max = Some(12490)
  /\ Len(resp.data) > 0 /\ Len(resp.data) < Len(CATALOGO)
  /\ \E i \in 1..Len(resp.data) : resp.data[i].precio = 12490

TintoMax12000 ==
  [tipo |-> Some(<<"t","i","n","t","o">>), cepa |-> None, origen |-> None,
   precio_min |-> None, precio_max |-> Some(12000)]

Ids(products) == [i \in 1..Len(products) |-> products[i].id]

\* C6 (as claimed): tipo "tinto" with precio_max 12000 returns exactly p01,
\* p03, p05, in that order.
C6_TintoThreeItems ==
  (req.op = "filtrar_catalogo" /\ req.filtros = TintoMax12000)
    => Ids(resp.data) = <<"p01", "p03", "p05">>

\* C6 (amended): tipo "tinto" with precio_max 12000 returns exactly p01 and
\* p03, in that order (p05 costs 12490), and no blanco, rosado or espumante
\* item.
C6_TintoTwoItems ==
  (req.op = "filtrar_catalogo" /\ req.filtros = TintoMax12000)
    => /\ Ids(resp.data) = <<"p01", "p03">>
       /\ \A i \in 1..Len(resp.data) : resp.data[i].tipo = <<"t","i","n","t","o">>

\* The example's request was served.
C6_Witness ==
  /\ req.op = "filtrar_catalogo"
  /\ req.filtros = TintoMax12000
  /\ resp.status = 200
  /\ Len(resp.data) > 0

-----------------------------------------------------------------------------
(* Claims about the stock ledger (SpecStock: one reserve at a time).       *)

\* The positions whose name equals `nombre` up to letter case.
SameName(nombre) ==
  {i \in 1..Len(db_stock) : Lower(db_stock[i].nombre) = Lower(nombre)}

\* C7: reserve(name, quantity), run on its own: with no entry of that name
\* (up to letter case) it fails with 404 (NotFound); with quantity greater
\* than the entry's balance it fails with 400 (InsufficientStock); otherwise
\* it succeeds and the balance afterwards is the balance before minus
\* quantity.  Both failures leave every balance unchanged.
C7_Reserve ==
  [][req'.op = "reservar_stock"
       => IF SameName(req'.nombre) = {}
          THEN resp' = Err(404, "Producto no encontrado") /\ db_stock' = db_stock
          ELSE LET i == MinOf(SameName(req'.nombre))
               IN  IF req'.cantidad > db_stock[i].stock
                   THEN /\ resp' = Err(400, "Stock insuficiente")
                        /\ db_stock' = db_stock
                   ELSE /\ resp'.status = 200
                        /\ db_stock'[i].stock = db_stock[i].stock - req'.cantidad
                        /\ db_stock'[i].nombre = db_stock[i].nombre
                        /\ Len(db_stock') = Len(db_stock)
                        /\ \A j \in 1..Len(db_stock) :
                             j # i => db_stock'[j] = db_stock[j]
    ]_vars

\* A reservation typed in another letter case took the whole balance.
C7_Witness ==
  /\ req.op = "reservar_stock"
  /\ req.nombre # StockName
  /\ req.cantidad > 0
  /\ resp.status = 200
  /\ db_stock[1].stock = 0

\* The balance of "Cabernet Sauvignon Reserva".
Balance == db_stock[MinOf(SameName(StockName))].stock

\* C8 (as claimed): from the seeded balance of 3, reserving 10 fails with
\* 400 and the balance stays 3; reserving exactly the available amount
\* succeeds and leaves 0; and from then on every reservation of 1 unit
\* fails with 400, that is, a balance that reached 0 is 0 after every
\* later request.
C8_SeedScenario ==
  [][LET reserve == /\ req'.op = "reservar_stock"
                    /\ Lower(req'.nombre) = Lower(StockName)
     IN  /\ (reserve /\ Balance = SeedStock /\ req'.cantidad = 10)
              => (resp' = Err(400, "Stock insuficiente") /\ Balance' = SeedStock)
         /\ (reserve /\ req'.cantidad = Balance)
              => (resp'.status = 200 /\ Balance' = 0)
         /\ (reserve /\ Balance = 0 /\ req'.cantidad = 1)
              => (resp' = Err(400, "Stock insuficiente") /\ Balance' = 0)
         /\ Balance = 0 => Balance' = 0
    ]_vars

-----------------------------------------------------------------------------
(* Claims about error outcomes (Spec) and authenticated endpoints          *)
(* (SpecCuenta).                                                           *)

\* The transport statuses of DuplicateEmail and InvalidCredentials and
\* InsufficientStock (400), InvalidToken (401) and NotFound (404).
ErrorStatuses == {400, 401, 404}

\* C9: whenever a handler ends with DuplicateEmail, InvalidCredentials,
\* InvalidToken, NotFound or InsufficientStock, every in-memory list is what
\* it was before the request.
C9_ErrorsLeaveListsUnchanged ==
  [][resp'.status \in ErrorStatuses => dbs' = dbs]_vars

\* An insufficient-stock error was answered while users and records were
\* stored.
C9_Witness ==
  /\ req.op = "reservar_stock"
  /\ resp = Err(400, "Stock insuficiente")
  /\ Len(db_users) > 0
  /\ RecordCount > 0

AuthOps ==
  {"activar_membresia", "enviar_notificacion", "crear_pedido", "crear_ticket",
   "registrar_donacion"}

\* The list an authenticated endpoint appends to.
ListOf(op) ==
  CASE op = "activar_membresia" -> db_membresias
    [] op = "enviar_notificacion" -> db_notificaciones
    [] op = "crear_pedido" -> db_pedidos
    [] op = "crear_ticket" -> db_tickets
    [] op = "registrar_donacion" -> db_donaciones

\* The same list after the step.
ListOfAfter(op) ==
  CASE op = "activar_membresia" -> db_membresias'
    [] op = "enviar_notificacion" -> db_notificaciones'
    [] op = "crear_pedido" -> db_pedidos'
    [] op = "crear_ticket" -> db_tickets'
    [] op = "registrar_donacion" -> db_donaciones'

\* C10: an endpoint that requires auth appends a record only when the
\* presented token resolves to a stored user, and the record's owner field
\* is that user's stored email; with a token that does not resolve the
\* request fails with 401 (InvalidToken) and nothing is appended.
C10_AuthenticatedAppend ==
  [][req'.op \in AuthOps
       => IF Unresolvable(req'.token)
          THEN resp' = CredException /\ dbs' = dbs
          ELSE LET u == db_users[MinOf(SameEmail(TokenRemainder(req'.token)))]
               IN  /\ resp'.status = 200
                   /\ resp'.data[1].usuario = u.email
                   /\ ListOfAfter(req'.op) = Append(ListOf(req'.op), resp'.data[1])
                   /\ \A op \in AuthOps \ {req'.op} : ListOfAfter(op) = ListOf(op)
                   /\ db_users' = db_users
    ]_vars

\* A membership was appended for a token typed in another letter case than
\* the stored email, and is owned by the stored email.
C10_Witness ==
  /\ req.op = "activar_membresia"
  /\ resp.status = 200
  /\ Len(db_membresias) > 0
  /\ db_membresias[Len(db_membresias)].usuario # TokenRemainder(req.token)
  /\ \E i \in 1..Len(db_users) :
       db_users[i].email = db_membresias[Len(db_membresias)].usuario

-----------------------------------------------------------------------------
(* Claims about the record lists (Spec) and the orders (SpecPedidos).      *)

IsPrefix(s, t) == Len(s) <= Len(t) /\ SubSeq(t, 1, Len(s)) = s

\* What identifies an order and never changes; estado is the one field a
\* handler overwrites in place.
SinEstado(p) == [id |-> p.id, usuario |-> p.usuario, tracking |-> p.tracking]

\* C11: every record list only grows: each step leaves every list a prefix
\* of what it becomes, so a record stays at its position in every later
\* state and none is removed or reordered (an order keeps its position, id,
\* owner and tracking; its status is the field seguimiento_pedido
\* overwrites); a create puts the record it returns at the end, and
\* listar_visitas returns the visits as stored, that is, in insertion order.
C11_ListsOnlyGrow ==
  [][/\ IsPrefix(db_users, db_users')
     /\ IsPrefix(db_membresias, db_membresias')
     /\ IsPrefix(db_notificaciones, db_notificaciones')
     /\ IsPrefix(db_tickets, db_tickets')
     /\ IsPrefix(db_marketplace, db_marketplace')
     /\ IsPrefix(db_alianzas, db_alianzas')
     /\ IsPrefix(db_etiquetas, db_etiquetas')
     /\ IsPrefix(db_donaciones, db_donaciones')
     /\ IsPrefix(db_visitas, db_visitas')
     /\ IsPrefix(db_maridajes, db_maridajes')
     /\ Len(db_pedidos) <= Len(db_pedidos')
     /\ \A i \in 1..Len(db_pedidos) :
          SinEstado(db_pedidos'[i]) = SinEstado(db_pedidos[i])
     /\ req'.op = "registrar_visita"
          => db_visitas' = Append(db_visitas, resp'.data[1])
     /\ req'.op = "listar_visitas" => resp'.data = db_visitas
    ]_vars

\* Both stored visits were listed, the older one first, while a user was
\* stored too.
C11_Witness ==
  /\ req.op = "listar_visitas"
  /\ Len(db_users) > 0
  /\ Len(resp.data) = 2
  /\ resp.data[1].id < resp.data[2].id
  /\ resp.data = db_visitas

\* C12: crear_pedido appends one order owned by the acting user (the stored
\* email the token resolves to) with status "Preparando"; an order enters
\* the list only this way, and the status of a stored order changes only in
\* a seguimiento_pedido step for that order's id, so that it is
\* "Preparando" from creation until the first such step.
C12_OrderStartsPreparando ==
  [][/\ (req'.op = "crear_pedido" /\ resp'.status = 200)
          => /\ db_pedidos' = Append(db_pedidos, resp'.data[1])
             /\ resp'.data[1].estado = "Preparando"
             /\ resp'.data[1].usuario =
                  db_users[MinOf(SameEmail(TokenRemainder(req'.token)))].email
     /\ Len(db_pedidos') # Len(db_pedidos)
          => /\ req'.op = "crear_pedido"
             /\ Len(db_pedidos') = Len(db_pedidos) + 1
             /\ db_pedidos'[Len(db_pedidos')].estado = "Preparando"
     /\ \A i \in 1..Len(db_pedidos) :
          db_pedidos'[i].estado # db_pedidos[i].estado
            => /\ req'.op = "seguimiento_pedido"
               /\ req'.pedido_id = db_pedidos[i].id
    ]_vars

\* The first order was advanced to "Entregado"; the second one, never
\* advanced, is still "Preparando".
C12_Witness ==
  /\ Len(db_pedidos) = 2
  /\ req.op = "seguimiento_pedido"
  /\ req.pedido_id = db_pedidos[1].id
  /\ db_pedidos[1].estado = "Entregado"
  /\ db_pedidos[2].estado = "Preparando"

\* The positions of the orders with this id.
SamePedido(pedido_id) ==
  {i \in 1..Len(db_pedidos) : db_pedidos[i].id = pedido_id}

\* C13: seguimiento_pedido fails with 404 (NotFound), writing nothing, when
\* no order has the id; otherwise it overwrites that order's status, and no
\* other field or order, with one of the four values and returns it; and in
\* every state, for every stored order whatever its current status, each of
\* the four values is a result the call can produce, so that an order at
\* "Entregado" can be back at "Preparando".
C13_AdvanceAnyStatus ==
  /\ [][req'.op = "seguimiento_pedido"
          => IF SamePedido(req'.pedido_id) = {}
             THEN resp' = Err(404, "Pedido no encontrado") /\ dbs' = dbs
             ELSE LET i == MinOf(SamePedido(req'.pedido_id))
                  IN  /\ resp'.status = 200
                      /\ db_pedidos'[i].estado \in Estados
                      /\ resp'.data[1].estado = db_pedidos'[i].estado
                      /\ Len(db_pedidos') = Len(db_pedidos)
                      /\ SinEstado(db_pedidos'[i]) = SinEstado(db_pedidos[i])
                      /\ \A j \in 1..Len(db_pedidos) :
                           j # i => db_pedidos'[j] = db_pedidos[j]
       ]_vars
  /\ [](\A i \in 1..Len(db_pedidos), e \in Estados :
          ENABLED (/\ SeguimientoPedido(db_pedidos[i].id, e)
                   /\ db_pedidos'[i].estado = e))

\* An advance put the first order back at "Preparando" while the second one
\* is at "Entregado".
C13_Witness ==
  /\ Len(db_pedidos) = 2
  /\ req.op = "seguimiento_pedido"
  /\ req.pedido_id = db_pedidos[1].id
  /\ resp.status = 200
  /\ resp.data[1].estado = "Preparando"
  /\ db_pedidos[1].estado = "Preparando"
  /\ db_pedidos[2].estado = "Entregado"

-----------------------------------------------------------------------------
(* Claims about support tickets (SpecSoporte).                             *)

\* The positions of the tickets owned by this email, up to letter case, in
\* the list after the step.
TicketsDeAfter(email) ==
  {i \in 1..Len(db_tickets') : Lower(db_tickets'[i].usuario) = Lower(email)}

SlaTable(canal) ==
  IF canal = "whatsapp" THEN "5min"
  ELSE IF canal = "telefono" THEN "10min"
  ELSE "24h"

-----------------------------------------------------------------------------
(* Claims about the lookups of labels and pairings (SpecRegistro).         *)

\* The positions of the records of `list` whose wine equals `vino` up to
\* letter case.
SameVino(list, vino) ==
  {i \in 1..Len(list) : Lower(list[i].vino) = Lower(vino)}

\* The answer r is the first record of `list` for `vino`, or 404 when there
\* is none.
IsFirstMatch(r, list, vino) ==
  /\ r.status = 404 <=> SameVino(list, vino) = {}
  /\ r.status # 404
       => /\ r.status = 200
          /\ \E i \in SameVino(list, vino) :
               /\ r.data = <<list[i]>>
               /\ \A j \in SameVino(list, vino) : i <= j

\* C15: ver_etiqueta and ver_maridaje return the first record, in insertion
\* order, whose wine equals the requested one up to letter case, and fail
\* with 404 (NotFound) exactly when no record matches; a record registered
\* later for the same wine is never the one returned.
C15_GetFirstMatch ==
  /\ req.op = "ver_etiqueta" => IsFirstMatch(resp, db_etiquetas, req.vino)
  /\ req.op = "ver_maridaje" => IsFirstMatch(resp, db_maridajes, req.vino)

\* Two pairings of one wine, typed in two letter cases, are stored; the
\* lookup, typed in the case of the second, returned the first.
C15_Witness ==
  /\ req.op = "ver_maridaje"
  /\ Len(db_maridajes) = 2
  /\ Lower(db_maridajes[1].vino) = Lower(db_maridajes[2].vino)
  /\ db_maridajes[1].vino # db_maridajes[2].vino
  /\ req.vino = db_maridajes[2].vino
  /\ resp.data = <<db_maridajes[1]>>

\* C16 (as claimed): both record types that have a get and a boolean flag,
\* labels (vigente) and pairings (disponible_offline), special-case it: a
\* match whose flag is false is returned marked as expired, a match whose
\* flag is true is returned as found.
C16_TwoTypesExpire ==
  /\ (req.op = "ver_etiqueta" /\ resp.status = 200)
       => resp.detail = IF resp.data[1].vigente THEN "Etiqueta encontrada"
                        ELSE "Etiqueta expirada"
  /\ (req.op = "ver_maridaje" /\ resp.status = 200)
       => resp.detail = IF resp.data[1].disponible_offline
                        THEN "Maridaje encontrado"
                        ELSE "Maridaje expirado"

\* C16 (amended): one record type special-cases its flag in get: when the
\* label ver_etiqueta matches has vigente false it is still returned, not
\* 404, with the message "Etiqueta expirada", and with vigente true it is
\* returned as found; ver_maridaje returns its match as found whatever the
\* flag of the pairing.
C16_LabelAloneExpires ==
  /\ (req.op = "ver_etiqueta" /\ SameVino(db_etiquetas, req.vino) # {})
       => LET e == db_etiquetas[MinOf(SameVino(db_etiquetas, req.vino))]
          IN  /\ resp.status = 200
              /\ resp.data = <<e>>
              /\ resp.detail = IF e.vigente THEN "Etiqueta encontrada"
                               ELSE "Etiqueta expirada"
  /\ (req.op = "ver_maridaje" /\ SameVino(db_maridajes, req.vino) # {})
       => /\ resp.status = 200
          /\ resp.detail = "Maridaje encontrado"

\* A label that is no longer valid was looked up and returned as expired.
C16_Witness ==
  /\ req.op = "ver_etiqueta"
  /\ resp.status = 200
  /\ resp.detail = "Etiqueta expirada"
  /\ ~resp.data[1].vigente

-----------------------------------------------------------------------------
(* Claim about the pairing chatbot (SpecChatbot).                          *)

ChatbotKeys == {carne, pescado, pasta, queso}

\* C17: the dish is matched against the table up to letter case: "carne" in
\* any letter case gives "Cabernet Sauvignon", every dish that is in no
\* letter case a key of the table gives "Pinot Noir", and a step of the
\* chatbot leaves every list as it was.
C17_ChatbotPairing ==
  [][req'.op = "chatbot_maridaje"
       => /\ resp'.status = 200
          /\ Lower(req'.plato) = carne
               => resp'.data[1].vino = "Cabernet Sauvignon"
          /\ Lower(req'.plato) \notin ChatbotKeys
               => resp'.data[1].vino = "Pinot Noir"
          /\ resp'.data[1].vino = "Pinot Noir"
               => Lower(req'.plato) \notin ChatbotKeys
          /\ dbs' = dbs
          /\ uuid_ctr' = uuid_ctr
    ]_vars

\* "carne" typed with capital letters was answered with Cabernet Sauvignon
\* while pairings were stored.
C17_Witness ==
  /\ req.op = "chatbot_maridaje"
  /\ req.plato = <<"C","a","R","n","E">>
  /\ resp.data[1].vino = "Cabernet Sauvignon"
  /\ Len(db_maridajes) = 2

-----------------------------------------------------------------------------
(* Claim about the bearer token (SpecAuth).                                *)

\* The bearer string anyone who knows the email can write down.
ForgedToken(u) == TokenPrefix \o u.email

\* C18: in every state from a user's registration on, the string "token-"
\* followed by that user's stored email resolves to that user, whichever
\* requests were served before and whether or not a login of that user ever
\* succeeded; a request that presents it is answered with that user.
C18_ForgedTokenResolves ==
  \A i \in 1..Len(db_users) :
    /\ get_current_user(ForgedToken(db_users[i])) =
         [status |-> 200, user |-> Some(db_users[i])]
    /\ (req.op = "get_current_user" /\ req.token = ForgedToken(db_users[i]))
         => resp = Ok("", Some(db_users[i]))

\* The user registered with the empty email, for whom no login ever
\* succeeds, was resolved from the bare prefix after a second user had been
\* registered.
C18_Witness ==
  /\ req.op = "get_current_user"
  /\ req.token = TokenPrefix
  /\ resp.status = 200
  /\ Len(db_users) = 2
  /\ resp.data = <<db_users[1]>>
  /\ db_users[1].email = <<>>

-----------------------------------------------------------------------------
(* Claim about reservations served one at a time (SpecStock).              *)

\* C19: when reserve calls run one at a time, the balance of every stock
\* entry is non-negative in every reachable state, whatever names and
\* integer quantities (negative ones and zero included) are requested.
C19_BalanceNonNegative ==
  \A i \in 1..Len(db_stock) : db_stock[i].stock >= 0

\* At balance 0 a reservation of one unit, typed in capital letters, was
\* refused.
C19_Witness ==
  /\ req.op = "reservar_stock"
  /\ req.nombre # StockName
  /\ req.cantidad = 1
  /\ resp = Err(400, "Stock insuficiente")
  /\ Balance = 0

-----------------------------------------------------------------------------
(* Claim about concurrent reservations (SpecConcurrente).                  *)

\* The calls that have passed the check and not yet written.
PastCheck == {r \in 1..MaxReservas : reservas[r].pc \in {"restar", "escribir"}}

\* C20: the check and the decrement of reservar_stock are separate steps
\* with no lock.  A call is refused only by its own check, on the balance it
\* saw then; a call that has passed the check reads and writes the balance
\* without looking at it again and succeeds, whatever other calls did to
\* the entry in between.  So when two calls on one entry have both passed
\* the check before either decrements, both succeed, and the entry is
\* oversold when the balance they saw does not cover both.
C20_CheckThenDecrement ==
  /\ [](\A r \in 1..MaxReservas :
          /\ reservas[r].pc \in {"restar", "escribir"}
               => reservas[r].visto >= reservas[r].cantidad
          /\ reservas[r].pc = "fin"
               => /\ reservas[r].status \in {200, 400, 404}
                  /\ reservas[r].status = 200
                       => reservas[r].visto >= reservas[r].cantidad
                  /\ reservas[r].status = 400
                       => reservas[r].visto < reservas[r].cantidad)
  /\ [][\A r \in PastCheck :
          \/ reservas'[r] = reservas[r]
          \/ /\ reservas[r].pc = "restar"
             /\ reservas'[r].pc = "escribir"
             /\ db_stock' = db_stock
          \/ /\ reservas[r].pc = "escribir"
             /\ reservas'[r].pc = "fin"
             /\ reservas'[r].status = 200
             /\ db_stock'[reservas[r].i].stock =
                  reservas[r].leido - reservas[r].cantidad
       ]_vars

\* From the seeded balance 3, two calls for 2 units each both saw 3 at
\* their check, both succeeded, and the balance is -1.
C20_Witness ==
  /\ \A r \in {1, 2} :
       /\ reservas[r].pc = "fin"
       /\ reservas[r].status = 200
       /\ reservas[r].cantidad = 2
       /\ reservas[r].visto = SeedStock
  /\ db_stock[1].stock = -1

-----------------------------------------------------------------------------
(* Claims about reservations, failed logins, advances of an order,         *)
(* identifiers, the older draft, and concurrent registration.              *)

\* C21 (as claimed): a successful reserve never raises a balance: for every
\* stock entry and every integer quantity the endpoint accepts, positive,
\* zero or negative, the balance after a successful reserve is at most the
\* balance before it, so no balance ever exceeds its seeded value.
C21_ReserveNeverRaises ==
  [][/\ (req'.op = "reservar_stock" /\ resp'.status = 200)
          => \A i \in 1..Len(db_stock) : db_stock'[i].stock <= db_stock[i].stock
     /\ \A i \in 1..Len(db_stock') : db_stock'[i].stock <= SeedStock
    ]_vars

\* The two ways a login fails on its credentials.
UnknownEmail(email) == SameEmail(email) = {}

WrongPassword(email, password) ==
  SameEmail(email) # {} /\ Credentialed(email, password) = {}

\* C26: a login that fails because the email is unknown and a login that
\* fails because the password is wrong are answered with one and the same
\* response, 400 with detail "Credenciales incorrectas" and no data, in
\* whatever state and for whatever request, and neither changes any state.
C26_FailedLoginUniform ==
  [][(/\ req'.op \in LoginOps
      /\ \/ UnknownEmail(req'.email)
         \/ WrongPassword(req'.email, req'.password))
       => /\ resp' = [status |-> 400, detail |-> "Credenciales incorrectas",
                      data |-> <<>>]
          /\ dbs' = dbs
          /\ uuid_ctr' = uuid_ctr
    ]_vars

\* With two users stored, a login with an email that is not registered was
\* refused with the answer a wrong password gets.
C26_Witness ==
  /\ req.op \in LoginOps
  /\ Len(db_users) = 2
  /\ UnknownEmail(req.email)
  /\ \E e \in Emails, p \in Passwords :
       /\ WrongPassword(e, p)
       /\ resp = LoginResponse(e, p)

\* C27: a successful seguimiento_pedido changes only the status of the
\* order asked for: that order's id, owner and tracking code, every other
\* order with its status, the number of orders, every other list and the
\* stock are what they were.
C27_AdvanceFrame ==
  [][(req'.op = "seguimiento_pedido" /\ resp'.status = 200)
       => /\ Len(db_pedidos') = Len(db_pedidos)
          /\ \A j \in 1..Len(db_pedidos) :
               IF db_pedidos[j].id = req'.pedido_id
               THEN SinEstado(db_pedidos'[j]) = SinEstado(db_pedidos[j])
               ELSE db_pedidos'[j] = db_pedidos[j]
          /\ <<db_users, db_membresias, db_notificaciones, db_stock,
               db_tickets, db_marketplace, db_alianzas, db_etiquetas,
               db_donaciones, db_visitas, db_maridajes>>'
               = <<db_users, db_membresias, db_notificaciones, db_stock,
                   db_tickets, db_marketplace, db_alianzas, db_etiquetas,
                   db_donaciones, db_visitas, db_maridajes>>
          /\ uuid_ctr' = uuid_ctr
    ]_vars

\* The second of two orders was advanced to "En ruta"; the first, created
\* by the same registered user, is still as created.
C27_Witness ==
  /\ Len(db_pedidos) = 2
  /\ Len(db_users) > 0
  /\ req.op = "seguimiento_pedido"
  /\ req.pedido_id = db_pedidos[2].id
  /\ resp.status = 200
  /\ db_pedidos[2].estado = "En ruta"
  /\ db_pedidos[1].estado = "Preparando"
  /\ db_pedidos[1].usuario = db_pedidos[2].usuario

\* The ids of a list are pairwise different.
UniqueIds(db) == \A i, j \in 1..Len(db) : db[i].id = db[j].id => i = j

\* C23 (as claimed): after any sequence of creates on the label,
\* virtual-visit and pairing registries and on orders, no two records of
\* one registry have the same id.
C23_UniqueIds ==
  /\ UniqueIds(db_etiquetas)
  /\ UniqueIds(db_visitas)
  /\ UniqueIds(db_maridajes)
  /\ UniqueIds(db_pedidos)

\* A wine satisfies every criterion of the filter that is not None: the
\* strings as case-insensitive substrings, the prices as inclusive bounds.
SatisfiesGiven(filtros, v) ==
  /\ IsNone(filtros.cepa) \/ Contains(Lower(v.cepa), Lower(Val(filtros.cepa)))
  /\ IsNone(filtros.origen)
       \/ Contains(Lower(v.origen), Lower(Val(filtros.origen)))
  /\ IsNone(filtros.precio_min) \/ v.precio >= Val(filtros.precio_min)
  /\ IsNone(filtros.precio_max) \/ v.precio <= Val(filtros.precio_max)

\* C25 (as claimed): the older draft's filtrar_catalogo returns exactly
\* the wines that satisfy every criterion whose value is not None, the
\* price bounds being applied for every number supplied, 0 included.
C25_OlderFilterAppliesEveryValue ==
  req.op = "vu_filtrar_catalogo"
    => /\ vu_resp.status = 200
       /\ \A k \in 1..Len(vinos) :
            (vinos[k] \in Range(vu_resp.data))
              <=> SatisfiesGiven(req.filtros, vinos[k])

\* A user as a client can tell it from another: everything but the uuid4
\* value, which differs from process to process.
SinId(u) == [email |-> u.email, name |-> u.name,
             hashed_password |-> u.hashed_password]

\* The outcome of a request: the status and detail, and for a user returned
\* the user without its id.
Outcome(r) ==
  [status |-> r.status, detail |-> r.detail,
   data |-> IF r.data # <<>> /\ "id" \in DOMAIN r.data[1]
            THEN <<SinId(r.data[1])>>
            ELSE r.data]

\* C24 (as claimed): served the same sequence of register, login and
\* token-resolution requests, the two drafts give the same outcome for each
\* request and hold the same users.
C24_DraftsAgree ==
  /\ Outcome(resp) = Outcome(vu_resp)
  /\ Len(db_users) = Len(vu_db_users)
  /\ \A i \in 1..Len(db_users) : SinId(db_users[i]) = SinId(vu_db_users[i])

\* C22 (as claimed): in every reachable state, register calls
\* interleaving between the scan and the append included, at most one call
\* for an email (up to case) has succeeded and no two stored users have
\* case-insensitively equal emails.
C22_EmailUniqueUnderInterleaving ==
  /\ \A i, j \in 1..Len(db_users) :
       Lower(db_users[i].email) = Lower(db_users[j].email) => i = j
  /\ \A r, s \in 1..MaxRegistros :
       (/\ registros[r].status = 200
        /\ registros[s].status = 200
        /\ Lower(registros[r].email) = Lower(registros[s].email)) => r = s
====
